---------------------------- MODULE Spec2Model ----------------------------
(***************************************************************************)
(* TimeTracker front end: the Time Watch attendance view                   *)
(* (src/front/src/pages/Reports.vue, second component, lines 710-1292),    *)
(* the timestamp form (src/front/src/components/CompanyForm.vue, lines     *)
(* 150-307) and the timestamp service they talk to.                        *)
(*                                                                         *)
(* The view is a state machine: its refs are the variables, each handler   *)
(* (a click, a watcher, a response callback) is one action.  The service   *)
(* is not part of the front end sources; it is modelled after section 6 of *)
(* the specification (a store of entries that does not itself enforce the  *)
(* open-entry invariant).  Requests travel in two steps, Serve (the        *)
(* service handles a request and produces the response) and a Receive      *)
(* action per request kind (the awaiting handler resumes), so responses    *)
(* can overtake each other as they can over HTTP.                          *)
(*                                                                         *)
(* Two more views have a state machine of their own: the report view       *)
(* (Reports.vue, first component, lines 1-324; ReportSpec) and the login   *)
(* page (CompanyForm.vue, lines 370-447; LoginSpec).  Their services are   *)
(* not modelled: a call at an await is answered or rejected.               *)
(***************************************************************************)
EXTENDS Integers, Sequences, FiniteSets, Bags, TLC

VARIABLES
  store,            \* service: the set of timestamp entries
  owner,            \* service: owner[id] is the user_email uuid id was issued to
  profile,          \* service: weekend_choice of every user
  net,              \* bag of requests and responses in flight
  hasPunchIn,       \* ref hasPunchIn
  message,          \* ref message
  selectedUser,     \* ref selectedUser
  selectedUserData, \* ref selectedUserData (its weekend_choice)
  userList,         \* ref userList (email -> weekend_choice), <<>> until fetched
  selectedYear,     \* ref selectedYear
  selectedMonth,    \* ref selectedMonth (0-based)
  selectedCompany,  \* ref selectedCompany
  currentDate,      \* ref currentDate ([year, month])
  calendarData,     \* ref calendarData: the displayed grid
  gestures,         \* number of gestures the user has made
  pin,              \* pure-function harness: the input drawn
  pout,             \* pure-function harness: the result computed
  reportType,       \* report view: ref reportType
  dateRangeType,    \* report view: ref dateRangeType
  reportYear,       \* report view: ref selectedYear
  reportMonth,      \* report view: ref selectedMonth (0-based)
  startDate,        \* report view: ref startDate
  endDate,          \* report view: ref endDate
  reportData,       \* report view: ref reportData
  serverErrorMessage, \* report view: ref serverErrorMessage
  adminNames,       \* report view: ref adminNames
  reportCalls,      \* report view: the calls of generateReport at an await
  producedBy,       \* history: the request whose answer is in reportData
  reportGestures,   \* report view: number of gestures the user has made
  form,             \* login page: ref form
  loginError,       \* login page: ref loginError
  route,            \* login page: the router's current path
  authUser,         \* login page: authStore.user
  loginCalls,       \* login page: the calls of handleLogin at an await
  loginGestures     \* login page: number of gestures the user has made

reportVars == <<reportType, dateRangeType, reportYear, reportMonth, startDate,
                endDate, reportData, serverErrorMessage, adminNames,
                reportCalls, producedBy, reportGestures>>

\* The views that are not mounted while the Time Watch view or the harness runs.
loginVars == <<form, loginError, route, authUser, loginCalls, loginGestures>>

otherViews == <<reportVars, loginVars>>

vars == <<store, owner, profile, net, hasPunchIn, message, selectedUser,
          selectedUserData, userList, selectedYear, selectedMonth,
          selectedCompany, currentDate, calendarData, gestures, pin, pout,
          otherViews>>

sessionVars == <<store, owner, profile, net, hasPunchIn, message,
                 selectedUser, selectedUserData, userList, selectedYear,
                 selectedMonth, selectedCompany, currentDate, calendarData,
                 gestures>>

\* The reporting types of an entry (reportingTypeOptions of the timestamp form).
ReportingTypes == {"work", "paidoff", "unpaidoff"}

\* The harness result: not computed yet, or the value computed.
NotRun == [done |-> FALSE]
Result(v) == [done |-> TRUE, value |-> v]

(***************************************************************************)
(* Bounds of the model.                                                    *)
(***************************************************************************)
\* Years the calendar arithmetic is checked for: MinYear .. MaxYear.
MinYear == 2019
MaxYear == 2030
\* The service hands out at most MaxEntries uuids.
MaxEntries == 2
\* A user gesture is taken only while at most MaxPending messages are in flight.
MaxPending == 1
\* A session is followed for at most MaxGestures gestures of the user.
MaxGestures == 2
\* Longest event list given to calculateDailyTotal in the pure-function harness.
MaxEvents == 2

(***************************************************************************)
(* JavaScript Date, at the granularity of days (local time).               *)
(***************************************************************************)
\* ECMAScript DayFromYear: day number of January 1st of year y (1970 -> 0).
DayFromYear(y) ==
  365 * (y - 1970) + ((y - 1969) \div 4) - ((y - 1901) \div 100)
    + ((y - 1601) \div 400)

\* ECMAScript DaysInYear.
DaysInYear(y) == DayFromYear(y + 1) - DayFromYear(y)

\* Days of year y before 0-based month m (ECMAScript MonthFromTime table).
DaysBeforeMonth(y, m) ==
  LET leap == DaysInYear(y) - 365
  IN  CASE m = 0 -> 0
        [] m = 1 -> 31
        [] m = 2 -> 59 + leap
        [] m = 3 -> 90 + leap
        [] m = 4 -> 120 + leap
        [] m = 5 -> 151 + leap
        [] m = 6 -> 181 + leap
        [] m = 7 -> 212 + leap
        [] m = 8 -> 243 + leap
        [] m = 9 -> 273 + leap
        [] m = 10 -> 304 + leap
        [] m = 11 -> 334 + leap
        [] m = 12 -> 365 + leap

\* new Date(y, m, d): ECMAScript MakeDay, for 0 <= m <= 11 and any d >= 1
\* (a day past the end of the month runs over into the following months).
MakeDay(y, m, d) == DayFromYear(y) + DaysBeforeMonth(y, m) + d - 1

\* Date.prototype.getDay: ECMAScript WeekDay (0 = Sunday; day 0 was a Thursday).
GetDay(t) == (t + 4) % 7

\* ECMAScript YearFromTime, for a day number within two years of year y.
YearFromDay(t, y) ==
  CHOOSE yy \in (y - 1)..(y + 2) : DayFromYear(yy) <= t /\ t < DayFromYear(yy + 1)

\* Date.prototype.getDate: ECMAScript DateFromTime, near year y.
GetDate(t, y) ==
  LET yy  == YearFromDay(t, y)
      doy == t - DayFromYear(yy)
      mm  == CHOOSE m \in 0..11 :
               DaysBeforeMonth(yy, m) <= doy /\ doy < DaysBeforeMonth(yy, m + 1)
  IN  doy - DaysBeforeMonth(yy, mm) + 1

(***************************************************************************)
(* The grid: buildCalendar.                                                *)
(***************************************************************************)
\* const weekDays (Time Watch): the column keys, Sunday first.
weekDays ==
  <<"sunday", "monday", "tuesday", "wednesday", "thursday", "friday", "saturday">>

\* week[dayName] = '' : a blank cell.  '' has no .day, and both '' and a
\* missing .day are falsy; the model writes the blank cell with day 0.
BlankCell == [day |-> 0, events |-> <<>>]

\* { day: dayCounter, events: [] }
DayCell(d) == [day |-> d, events |-> <<>>]

\* A first day counted in a week that starts on Monday.
FirstDayFromMonday(y, m) == (GetDay(MakeDay(y, m, 1)) + 6) % 7

\* const firstDay = (new Date(year, month)).getDay()
FirstDay(y, m) == GetDay(MakeDay(y, m, 1))

\* A month length that forgets leap years.
DaysInMonthNoLeap(y, m) ==
  IF m = 1 THEN 28 ELSE IF m \in {3, 5, 8, 10} THEN 30 ELSE 31

\* const daysInMonth = 32 - new Date(year, month, 32).getDate()
DaysInMonth(y, m) == 32 - GetDate(MakeDay(y, m, 32), y)

\* The inner loop for (let j = ...; j < 7; j++) of row i, from column j on:
\* acc is [week, dayCounter, isEmptyWeek] so far.
RECURSIVE InnerLoop(_, _, _, _, _)
InnerLoop(i, j, firstDay, daysInMonth, acc) ==
  IF j >= 7 THEN acc
  ELSE
    LET dayName == weekDays[j + 1]
    IN  IF i = 0 /\ j < firstDay
          THEN InnerLoop(i, j + 1, firstDay, daysInMonth,
                 [acc EXCEPT !.week = (dayName :> BlankCell) @@ @])
        ELSE IF acc.dayCounter > daysInMonth
          THEN InnerLoop(i, j + 1, firstDay, daysInMonth,
                 [acc EXCEPT !.week = (dayName :> BlankCell) @@ @])
        ELSE InnerLoop(i, j + 1, firstDay, daysInMonth,
                 [week        |-> (dayName :> DayCell(acc.dayCounter)) @@ acc.week,
                  dayCounter  |-> acc.dayCounter + 1,
                  isEmptyWeek |-> FALSE])

\* An outer loop that pushes every week, the empty ones included.
RECURSIVE OuterLoopPushAll(_, _, _, _, _)
OuterLoopPushAll(i, firstDay, daysInMonth, dayCounter, days) ==
  IF i >= 6 THEN days
  ELSE
    LET r == InnerLoop(i, 0, firstDay, daysInMonth,
               [week |-> <<>>, dayCounter |-> dayCounter, isEmptyWeek |-> TRUE])
    IN  OuterLoopPushAll(i + 1, firstDay, daysInMonth, r.dayCounter,
          Append(days, r.week))

\* The outer loop for (let i = ...; i < 6; i++), from row i on: the weeks pushed.
RECURSIVE OuterLoop(_, _, _, _, _)
OuterLoop(i, firstDay, daysInMonth, dayCounter, days) ==
  IF i >= 6 THEN days
  ELSE
    LET r == InnerLoop(i, 0, firstDay, daysInMonth,
               [week |-> <<>>, dayCounter |-> dayCounter, isEmptyWeek |-> TRUE])
    IN  OuterLoop(i + 1, firstDay, daysInMonth, r.dayCounter,
          IF ~r.isEmptyWeek THEN Append(days, r.week) ELSE days)

\* buildCalendar(currentDate): the value assigned to calendarData.
BuildCalendar(y, m) ==
  OuterLoop(0, FirstDay(y, m), DaysInMonth(y, m), 1, <<>>)

(***************************************************************************)
(* Rest days: isWeekend, hasDayOff, isDayOff.                              *)
(*                                                                         *)
(* A weekend_choice string is written as the sequence of its pieces        *)
(* between commas (what split(',') returns): "Friday,Saturday" is          *)
(* <<"Friday", "Saturday">> and the empty string is <<"">>.  An absent     *)
(* weekend_choice (undefined, null) is <<>>.                               *)
(***************************************************************************)
NoChoice == <<>>
EmptyString == <<"">>

\* !weekend_choice : undefined, null and '' are falsy.
Falsy(wc) == wc = NoChoice \/ wc = EmptyString

\* String.prototype.toLowerCase on the weekday names in use.
ToLowerCase(s) ==
  CASE s \in {"Sunday", "SUNDAY", "sunday"}          -> "sunday"
    [] s \in {"Monday", "MONDAY", "monday"}          -> "monday"
    [] s \in {"Tuesday", "TUESDAY", "tuesday"}       -> "tuesday"
    [] s \in {"Wednesday", "WEDNESDAY", "wednesday"} -> "wednesday"
    [] s \in {"Thursday", "THURSDAY", "thursday"}    -> "thursday"
    [] s \in {"Friday", "FRIDAY", "friday"}          -> "friday"
    [] s \in {"Saturday", "SATURDAY", "saturday"}    -> "saturday"
    [] OTHER -> s

\* An isWeekend that compares the names as they are written.
isWeekendExact(wc, dayName) ==
  IF Falsy(wc) THEN FALSE
  ELSE \E k \in 1..Len(wc) : wc[k] = dayName

\* isWeekend(dayName) of the Time Watch view, on weekend_choice wc.
isWeekend(wc, dayName) ==
  IF Falsy(wc) THEN FALSE
  ELSE \E k \in 1..Len(wc) : ToLowerCase(wc[k]) = ToLowerCase(dayName)

\* A hasDayOff that looks for 'paidoff' events only.
hasPaidDayOff(found, dayData) ==
  IF found /\ dayData.day # 0
    THEN \E k \in 1..Len(dayData.events) :
           dayData.events[k].reporting_type = "paidoff"
    ELSE FALSE

\* hasDayOff(dayData); found = FALSE stands for dayData undefined.
hasDayOff(found, dayData) ==
  IF found /\ dayData.day # 0
    THEN \E k \in 1..Len(dayData.events) :
           dayData.events[k].reporting_type \in {"unpaidoff", "paidoff"}
    ELSE FALSE

\* calendarData.flatMap(week => Object.values(week)): the cells, row by row,
\* each row in the order its keys were inserted (Sunday first).
RECURSIVE FlatCells(_)
FlatCells(grid) ==
  IF grid = <<>> THEN <<>>
  ELSE [j \in 1..7 |-> Head(grid)[weekDays[j]]] \o FlatCells(Tail(grid))

\* isDayOff(day, dayName) on weekend_choice wc and grid.
isDayOff(wc, grid, day, dayName) ==
  IF Falsy(wc) THEN FALSE
  ELSE IF isWeekend(wc, dayName) THEN TRUE
  ELSE LET cells == FlatCells(grid)
           hits  == {k \in 1..Len(cells) : cells[k].day = day}
       IN  IF hits = {} THEN hasDayOff(FALSE, BlankCell)
           ELSE hasDayOff(TRUE, cells[CHOOSE k \in hits : \A h \in hits : k <= h])

(***************************************************************************)
(* Totals and formatting.                                                  *)
(***************************************************************************)
\* The fixed credit of a 'paidoff' entry: 8 * 3600.
PaidOffSeconds == 8 * 3600

\* A daily total that credits a 'paidoff' entry with its own total_time.
RECURSIVE SumOfTotalTime(_)
SumOfTotalTime(events) ==
  IF events = <<>> THEN 0
  ELSE Head(events).total_time + SumOfTotalTime(Tail(events))

\* A daily total whose loop assigns instead of adding: the last event's share.
calculateDailyTotalLast(events) ==
  IF events = <<>> THEN 0
  ELSE LET last == events[Len(events)]
       IN  IF last.reporting_type = "paidoff" THEN PaidOffSeconds
           ELSE last.total_time

\* calculateDailyTotal(events)
RECURSIVE calculateDailyTotal(_)
calculateDailyTotal(events) ==
  IF events = <<>> THEN 0
  ELSE (IF Head(events).reporting_type = "paidoff"
          THEN PaidOffSeconds
          ELSE Head(events).total_time)
       + calculateDailyTotal(Tail(events))

\* Math.floor(a / b) for a >= 0 and b > 0.
MathFloor(a, b) == a \div b

\* Math.round(a / b) for b > 0: the nearest integer, halves towards +infinity.
MathRound(a, b) == (2 * a + b) \div (2 * b)

\* a % b in JavaScript for b > 0: the remainder has the sign of a.
JsRem(a, b) == IF a >= 0 THEN a % b ELSE -((-a) % b)

\* String(n).padStart(2, '0')
PadStart2(str) == IF Len(str) < 2 THEN "0" \o str ELSE str

\* formatTimeFromSeconds(totalSeconds)
formatTimeFromSeconds(totalSeconds) ==
  LET hours   == PadStart2(ToString(MathRound(totalSeconds, 3600)))
      minutes == PadStart2(ToString(MathRound(JsRem(totalSeconds, 3600), 60)))
  IN  hours \o ":" \o minutes

\* formatTimeFromHours(totalHours) of the profile form, totalHours = num / den.
formatTimeFromHours(num, den) ==
  LET seconds == MathRound(num * 3600, den)
      hours   == PadStart2(ToString(MathRound(seconds, 3600)))
      minutes == PadStart2(ToString(MathRound(JsRem(seconds, 3600), 60)))
  IN  hours \o ":" \o minutes

\* calculateDailyTotalString(events)
calculateDailyTotalString(events) ==
  formatTimeFromSeconds(calculateDailyTotal(events))

\* The forEach loops of totalTimeWorkedThisMonth over the cells of the grid;
\* day.events is defined in the populated cells only.
RECURSIVE SumOfCells(_)
SumOfCells(cells) ==
  IF cells = <<>> THEN 0
  ELSE (IF Head(cells).day # 0 THEN calculateDailyTotal(Head(cells).events) ELSE 0)
       + SumOfCells(Tail(cells))

\* A month total that reads five rows of the grid at most.
totalTimeOfFiveWeeks(grid) ==
  formatTimeFromSeconds(
    SumOfCells(FlatCells(SubSeq(grid, 1, IF Len(grid) < 5 THEN Len(grid) ELSE 5))))

\* totalTimeWorkedThisMonth (computed) on calendarData = grid.
totalTimeWorkedThisMonth(grid) == formatTimeFromSeconds(SumOfCells(FlatCells(grid)))

\* validateEndTime(endTime) of the timestamp form, inTime being the form's
\* start time.  A time typed in, "hh:mm", is written <<hh, mm>> (what
\* split(':').map(Number) makes of it); an empty field is <<>>.  The rule
\* returns true or the text of the error.
validateEndTime(endTime, inTime) ==
  IF endTime = <<>> \/ inTime = <<>> THEN [valid |-> TRUE, error |-> ""]
  ELSE LET endHours == endTime[1]    endMinutes == endTime[2]
           startHours == inTime[1]   startMinutes == inTime[2]
       IN  IF endHours > startHours
              \/ (endHours = startHours /\ endMinutes >= startMinutes)
             THEN [valid |-> TRUE, error |-> ""]
             ELSE [valid |-> FALSE, error |-> "End time must be later than Start Time"]

(***************************************************************************)
(* What the templates show for a day.                                      *)
(***************************************************************************)
\* Time Watch calendar cell (template, slot item.<dayName>): the weekend
\* mark, the add button, the total line and the event list of one cell.
CalendarCellView(wc, grid, dayName, cell) ==
  [weekend   |-> isWeekend(wc, dayName) /\ cell.day # 0,
   addButton |-> cell.day # 0 /\ ~isDayOff(wc, grid, cell.day, dayName),
   total     |-> IF Len(cell.events) > 0
                   THEN calculateDailyTotalString(cell.events) ELSE "",
   events    |-> IF Len(cell.events) > 0 THEN cell.events ELSE <<>>]

\* isWeekend(dayName) of the report view, on userDetails.weekendChoice wc.
isWeekendReport(wc, dayName) ==
  IF Falsy(wc) THEN FALSE
  ELSE \E k \in 1..Len(wc) : ToLowerCase(wc[k]) = ToLowerCase(dayName)

\* The reportingType of a daily row of the report, as the report service
\* derives it from the entries of the day: paid leave before unpaid leave
\* before work; "none" when the day has no entry.
ClassifyDay(events) ==
  LET has(rt) == \E k \in 1..Len(events) : events[k].reporting_type = rt
  IN  IF has("paidoff") THEN "paidoff"
      ELSE IF has("unpaidoff") THEN "unpaidoff"
      ELSE IF has("work") THEN "work"
      ELSE "none"

\* A v-if chain that looks at the reporting type before the weekday.
ReportingTypeFirst(wc, weekdayLong, reportingType) ==
  IF reportingType = "work" THEN "Work"
  ELSE IF reportingType = "unpaidoff" THEN "Unpaid Day Off"
  ELSE IF reportingType = "paidoff" THEN "Paid Day Off"
  ELSE IF isWeekendReport(wc, weekdayLong) THEN "Weekend"
  ELSE "Not Reported"

\* Report view, column reportingType of a daily row: the v-if chain.
\* weekdayLong is toLocaleDateString('en-US', {weekday: 'long'}) of the row's date.
ReportingTypeColumn(wc, weekdayLong, reportingType) ==
  IF isWeekendReport(wc, weekdayLong) THEN "Weekend"
  ELSE IF reportingType = "work" THEN "Work"
  ELSE IF reportingType = "unpaidoff" THEN "Unpaid Day Off"
  ELSE IF reportingType = "paidoff" THEN "Paid Day Off"
  ELSE "Not Reported"

(***************************************************************************)
(* The session: who is logged in, what day it is, what can be selected.    *)
(***************************************************************************)
\* authStore.user.email, and the users the service knows.  The logged-in
\* user is a net admin: the company selector and the user selector are shown
\* and fetchUsers runs on mount.
AuthUser == "u1"
Users == {"u1", "u2"}

\* authStore.user.company_id, the companies of companyList, and the users of
\* each: the second company has no users yet.
AuthCompany == "c1"
Companies == {"c1", "c2"}
UsersOf(company) == IF company = AuthCompany THEN Users ELSE {}

\* new Date() throughout the session: Friday, April 5th 2024 (month 0-based).
Today == [year |-> 2024, month |-> 3, day |-> 5]
\* The hour of the clock when the service stamps a punch-in and a punch-out.
Clock == [punchIn |-> 9, punchOut |-> 17]

\* Years and months the selectors are moved to in the model.
SelectableYears == {2024, 2025}
SelectableMonths == {2, 3}

\* weekend_choice values of the logged-in user in the service's user table.
AuthChoices == {<<"Friday", "Saturday">>, <<"Saturday", "Sunday">>}
\* weekend_choice of the other user.
OtherChoice == <<"Saturday", "Sunday">>

\* What the timestamp form is submitted with: the day clicked, the reporting
\* type, and for 'work' the start and end hour typed in.
FormDays == {5, 31}
FormHours == {<<7, 8>>}

\* A timestamp: [year, month, day, hour]; NoTime is a null timestamp.
NoTime == [year |-> 0, month |-> 0, day |-> 0, hour |-> 0]
Time(y, m, d, h) == [year |-> y, month |-> m, day |-> d, hour |-> h]

\* a.inTime - b.inTime compares the two instants.
TimeKey(t) == MakeDay(t.year, t.month, t.day) * 24 + t.hour

(***************************************************************************)
(* The timestamp service (modelled after the specification, sections 3,    *)
(* 4.4 and 6: the front end sources hold only its callers).                *)
(***************************************************************************)
NextId == Len(owner) + 1

\* An entry of the store, in the field names of the service's JSON.
Entry(id, user, ptype, rtype, tin, tout) ==
  [uuid |-> id, user_email |-> user, punch_type |-> ptype,
   reporting_type |-> rtype, punch_in_timestamp |-> tin,
   punch_out_timestamp |-> tout,
   total_work_time |-> IF tout = NoTime THEN 0
                       ELSE (TimeKey(tout) - TimeKey(tin)) * 3600]

\* The open work entries of user u: punched in, not punched out.
OpenEntries(u) ==
  {e \in store : e.user_email = u /\ e.reporting_type = "work"
                 /\ e.punch_out_timestamp = NoTime}

\* The open work entries of user u punched in today.
OpenToday(u) ==
  {e \in OpenEntries(u) :
     /\ e.punch_in_timestamp.year = Today.year
     /\ e.punch_in_timestamp.month = Today.month
     /\ e.punch_in_timestamp.day = Today.day}

\* Entries of user u whose punch-in date lies in month m of year y.
EntriesInRange(u, y, m) ==
  {e \in store : e.user_email = u /\ e.punch_in_timestamp.year = y
                 /\ e.punch_in_timestamp.month = m}

Req(kind, args) == [t |-> "req", kind |-> kind, args |-> args]

\* A response carries the request's arguments: what the awaiting handler
\* still holds in its closure when it resumes.
Resp(req, ok, result) ==
  [t |-> "resp", kind |-> req.kind, args |-> req.args, ok |-> ok,
   result |-> result]

\* The request a response answers.
ReqOf(resp) == Req(resp.kind, resp.args)

One(m) == SetToBag({m})
Requests == {r \in BagToSet(net) : r.t = "req"}

\* The requests that only read: status, entries of a month, users.
ReadKinds == {"punchInStatus", "getRange", "getByEmail", "getCompanyUsers"}
PendingReads == {r \in Requests : r.kind \in ReadKinds}

\* What the service answers to a read request, from what it holds now:
\*   POST timestamps/punch_in_status        -> has_punch_in
\*   GET  timestamps/<user>?start_date&end_date -> the entries of the range
\*   GET  users/<email>                     -> the user
\*   GET  companies/<id>/users              -> the users of the company
Answer(r) ==
  CASE r.kind = "punchInStatus" ->
         Resp(r, TRUE, [has_punch_in |-> OpenEntries(r.args.user_email) # {}])
    [] r.kind = "getRange" ->
         Resp(r, TRUE, EntriesInRange(r.args.user, r.args.year, r.args.month))
    [] r.kind = "getByEmail" ->
         Resp(r, TRUE, [weekend_choice |-> profile[r.args.user_email]])
    [] r.kind = "getCompanyUsers" ->
         Resp(r, TRUE, [u \in UsersOf(r.args.company) |-> profile[u]])

\* The response of a request that fails: no connection, or an error status.
Failed(r) == Resp(r, FALSE, [error |-> "unavailable"])

\* Reads commute with each other, so all that matters is which writes the
\* service handled before each read.  A read is therefore answered either
\* together with the write it precedes (early[r] copies of read request r are
\* answered from the store as it is before the write), or when its response
\* is received (see Arrivals).
EarlyChoices ==
  {early \in [PendingReads -> 0..BagCardinality(net)] :
     \A r \in PendingReads : early[r] <= CopiesIn(r, net)}

AnswerEarly(early) ==
  LET taken == {r \in PendingReads : early[r] > 0}
  IN  (net (-) [r \in taken |-> early[r]])
        (+) [q \in {Answer(r) : r \in taken} |-> early[ReqOf(q)]]

\* The service handles write request r after the reads in early.
Handled(early, r, ok, result) ==
  (AnswerEarly(early) (-) One(r)) (+) One(Resp(r, ok, result))

\* The entry added by a create request.
Created(r) ==
  IF r.args.punch_type = 0
    THEN Entry(NextId, r.args.user_email, 0, r.args.reporting_type,
               Time(Today.year, Today.month, Today.day, Clock.punchIn), NoTime)
    ELSE Entry(NextId, r.args.user_email, 1, r.args.reporting_type,
               r.args.punch_in_timestamp, r.args.punch_out_timestamp)

\* What a step of the service leaves alone: the view.
viewVars ==
  <<hasPunchIn, message, selectedUser, selectedUserData, userList,
    selectedYear, selectedMonth, selectedCompany, currentDate, calendarData,
    gestures, pin, pout, otherViews>>

\* POST timestamps (create): a punch-in (punch_type 0) is stamped now and left
\* open, a manual entry (punch_type 1) carries both timestamps.  The store
\* does not look for an open entry; it knows the user or refuses.
ServeCreate ==
  \E r \in Requests, early \in EarlyChoices :
    /\ r.kind = "create"
    /\ IF r.args.user_email \in Users
         THEN /\ NextId <= MaxEntries
              /\ store' = store \cup {Created(r)}
              /\ owner' = Append(owner, r.args.user_email)
              /\ net' = Handled(early, r, TRUE, [message |-> "created"])
         ELSE /\ net' = Handled(early, r, FALSE, [error |-> "user not found"])
              /\ UNCHANGED <<store, owner>>
    /\ UNCHANGED <<profile, viewVars>>

\* PUT timestamps/punch_out: closes the latest open entry of today, or answers
\* action_required = 'manual_punch_in' when there is none.
ServePunchOut ==
  \E r \in Requests, early \in EarlyChoices :
    /\ r.kind = "punchOut"
    /\ LET open == OpenToday(r.args.user_email)
       IN  IF open = {}
             THEN /\ net' = Handled(early, r, FALSE,
                                    [action_required |-> "manual_punch_in"])
                  /\ UNCHANGED store
             ELSE LET e == CHOOSE x \in open : \A z \in open : z.uuid <= x.uuid
                  IN  /\ store' = (store \ {e}) \cup
                           {Entry(e.uuid, e.user_email, e.punch_type, "work",
                                  e.punch_in_timestamp,
                                  Time(Today.year, Today.month, Today.day,
                                       Clock.punchOut))}
                      /\ net' = Handled(early, r, TRUE, [message |-> "punched out"])
    /\ UNCHANGED <<owner, profile, viewVars>>

\* DELETE timestamps/<id>
ServeDelete ==
  \E r \in Requests, early \in EarlyChoices :
    /\ r.kind = "delete"
    /\ LET hit == {e \in store : e.uuid = r.args.id}
       IN  IF hit = {}
             THEN /\ net' = Handled(early, r, FALSE, [error |-> "not found"])
                  /\ UNCHANGED store
             ELSE /\ store' = store \ hit
                  /\ net' = Handled(early, r, TRUE, [message |-> "deleted"])
    /\ UNCHANGED <<owner, profile, viewVars>>

\* PUT timestamps/<id> (edit): new timestamps and reporting type.
ServeEdit ==
  \E r \in Requests, early \in EarlyChoices :
    /\ r.kind = "edit"
    /\ LET hit == {e \in store : e.uuid = r.args.id}
       IN  IF hit = {}
             THEN /\ net' = Handled(early, r, FALSE, [error |-> "not found"])
                  /\ UNCHANGED store
             ELSE LET e == CHOOSE x \in hit : TRUE
                  IN  /\ store' = (store \ hit) \cup
                           {Entry(e.uuid, e.user_email, r.args.punch_type,
                                  r.args.reporting_type,
                                  r.args.punch_in_timestamp,
                                  r.args.punch_out_timestamp)}
                      /\ net' = Handled(early, r, TRUE, [message |-> "updated"])
    /\ UNCHANGED <<owner, profile, viewVars>>

\* The requests whose failure the model follows.  The catch blocks of
\* fetchSelf and fetchUsers only log: a failed profile read leaves the view as
\* it is while the read is pending.
FailingKinds ==
  {"punchInStatus", "getRange", "create", "punchOut", "delete", "edit"}

\* What may arrive at the handler awaiting a request of the given kind: msg
\* is the message leaving the network, resp the response the handler sees.
\* A response in flight arrives as it is; a request not handled yet may fail;
\* a read not answered yet is answered now.
Arrivals(kind) ==
  LET msgs == {m \in BagToSet(net) : m.kind = kind}
  IN       {[msg |-> m, resp |-> m] : m \in {x \in msgs : x.t = "resp"}}
      \cup {[msg |-> m, resp |-> Failed(m)] :
              m \in {x \in msgs : x.t = "req" /\ x.kind \in FailingKinds}}
      \cup {[msg |-> m, resp |-> Answer(m)] :
              m \in {x \in msgs : x.t = "req" /\ x.kind \in ReadKinds}}

(***************************************************************************)
(* The Time Watch view: its handlers.                                      *)
(***************************************************************************)
\* response.data.map(entry => ({...})): the event object made of an entry.
EventOf(entry) ==
  [id             |-> entry.uuid,
   inTime         |-> entry.punch_in_timestamp,
   outTime        |-> entry.punch_out_timestamp,
   total_time     |-> entry.total_work_time,
   punchType      |-> entry.punch_type,
   reporting_type |-> entry.reporting_type]

\* Array.filter: the events of the given day of month m of year y, in order.
RECURSIVE EventsForDay(_, _, _, _)
EventsForDay(events, day, y, m) ==
  IF events = <<>> THEN <<>>
  ELSE LET e == Head(events)
           rest == EventsForDay(Tail(events), day, y, m)
       IN  IF e.inTime.day = day /\ e.inTime.month = m /\ e.inTime.year = y
             THEN <<e>> \o rest ELSE rest

\* Inserts e behind every element that does not come after it.
RECURSIVE InsertByInTime(_, _)
InsertByInTime(sorted, e) ==
  IF sorted = <<>> THEN <<e>>
  ELSE IF TimeKey(Head(sorted).inTime) <= TimeKey(e.inTime)
    THEN <<Head(sorted)>> \o InsertByInTime(Tail(sorted), e)
    ELSE <<e>> \o sorted

\* The events of a day left in the order of the response.
Unsorted(events) == events

\* eventsForDay.sort((a, b) => a.inTime - b.inTime): a stable sort.
RECURSIVE SortByInTime(_)
SortByInTime(events) ==
  IF events = <<>> THEN <<>>
  ELSE InsertByInTime(SortByInTime(SubSeq(events, 1, Len(events) - 1)),
                      events[Len(events)])

\* The calendarData.forEach of fetchTimeEntries: every populated cell of the
\* grid as it is NOW gets the events of its day number in the month and year
\* of the currentDate the fetch was called with.
AttachEvents(grid, events, y, m) ==
  [w \in 1..Len(grid) |->
     [n \in DOMAIN grid[w] |->
        IF grid[w][n].day # 0
          THEN [grid[w][n] EXCEPT
                  !.events = SortByInTime(EventsForDay(events, grid[w][n].day,
                                                      y, m))]
          ELSE grid[w][n]]]

\* The orders in which the service may list a set of entries.
Orderings(S) ==
  {q \in [1..Cardinality(S) -> S] : \A e \in S : \E k \in DOMAIN q : q[k] = e}

Send(msgs) == net (+) msgs
Resume(arrival, msgs) == (net (-) One(arrival.msg)) (+) msgs

StatusReq == Req("punchInStatus", [user_email |-> AuthUser])

\* fetchUsers() for the company selected at that moment; clear says that the
\* call is the one of watch(selectedCompany), which clears selectedUser when
\* fetchUsers has returned.
UsersReq(company, clear) ==
  Req("getCompanyUsers", [company |-> company, clear |-> clear])
RangeReq(user, y, m, mount) ==
  Req("getRange", [user |-> user, year |-> y, month |-> m, mount |-> mount])

\* An updateCalendar that fetches the entries and leaves the status alone.
FetchOnly(user, y, m) == One(RangeReq(user, y, m, FALSE))

\* The requests updateCalendar sends: fetchTimeEntries(currentDate.value) with
\* the user selected at that moment, and checkPunchInStatus().
UpdateCalendarRequests(user, y, m) ==
  One(RangeReq(user, y, m, FALSE)) (+) One(StatusReq)

\* updateCalendar(), the client side of it: currentDate and the rebuilt grid.
UpdateCalendarState(y, m) ==
  /\ currentDate' = [year |-> y, month |-> m]
  /\ calendarData' = BuildCalendar(y, m)

\* const hasCurrentDayOff = computed(...)
hasCurrentDayOff ==
  isDayOff(selectedUserData, calendarData, Today.day,
           weekDays[GetDay(MakeDay(Today.year, Today.month, Today.day)) + 1])

\* :disabled of the Punch In and Punch Out buttons; both are rendered only
\* when the logged-in user is the selected one.
PunchInEnabled ==
  selectedUser = AuthUser /\ ~(hasPunchIn \/ hasCurrentDayOff)
PunchOutEnabled ==
  selectedUser = AuthUser /\ ~(~hasPunchIn \/ hasCurrentDayOff)

\* A gesture is taken only while the network is nearly quiet (the bound).
Quiet == BagCardinality(net) <= MaxPending /\ gestures < MaxGestures

\* The populated cells and the events on display.
ShownCells ==
  {c \in {calendarData[w][weekDays[j]] : w \in 1..Len(calendarData), j \in 1..7} :
     c.day # 0}
ShownEvents ==
  UNION {{c.events[k] : k \in 1..Len(c.events)} : c \in ShownCells}

serviceVars == <<store, owner, profile>>
selection == <<selectedUser, selectedYear, selectedMonth, selectedCompany>>
harness == <<pin, pout, otherViews>>

\* checkPunchInStatus, after the await.
ApplyPunchInStatus(a) ==
    LET r == a.resp IN
    /\ hasPunchIn' = IF r.ok THEN r.result.has_punch_in ELSE hasPunchIn
    /\ net' = Resume(a, EmptyBag)
    /\ UNCHANGED <<serviceVars, message, selection, selectedUserData, userList,
                   currentDate, calendarData, gestures, harness>>

RecvPunchInStatus == \E a \in Arrivals("punchInStatus") : ApplyPunchInStatus(a)

\* Click on Punch In: punchIn() up to its await.
ClickPunchIn ==
  /\ PunchInEnabled /\ Quiet
  /\ net' = Send(One(Req("create",
               [user_email |-> AuthUser, punch_type |-> 0,
                reporting_type |-> "work"])))
  /\ gestures' = gestures + 1
  /\ UNCHANGED <<serviceVars, hasPunchIn, message, selection, selectedUserData,
                 userList, currentDate, calendarData, harness>>

\* punchIn(), after the await.
RecvPunchIn ==
  \E a \in Arrivals("create") :
    LET r == a.resp IN
    /\ r.args.punch_type = 0
    /\ IF r.ok
         THEN /\ message' = "Punched in successfully"
              /\ hasPunchIn' = TRUE
              /\ UpdateCalendarState(selectedYear, selectedMonth)
              /\ net' = Resume(a, UpdateCalendarRequests(selectedUser,
                                    selectedYear, selectedMonth))
         ELSE /\ net' = Resume(a, EmptyBag)
              /\ UNCHANGED <<message, hasPunchIn, currentDate, calendarData>>
    /\ UNCHANGED <<serviceVars, selection, selectedUserData, userList, gestures, harness>>

\* Click on Punch Out: punchOut() up to its await.
ClickPunchOut ==
  /\ PunchOutEnabled /\ Quiet
  /\ net' = Send(One(Req("punchOut",
               [user_email |-> AuthUser, reporting_type |-> "work"])))
  /\ gestures' = gestures + 1
  /\ UNCHANGED <<serviceVars, hasPunchIn, message, selection, selectedUserData,
                 userList, currentDate, calendarData, harness>>

\* The message of the manual_punch_in branch of punchOut().
ManualPunchInPrompt ==
  "No punch-in found for today. Please manually add a punch-in entry."

\* A punchOut() that sends the request again when it is refused.
RecvPunchOutRetrying ==
  \E a \in Arrivals("punchOut") :
    LET r == a.resp IN
    /\ IF r.ok
         THEN /\ message' = r.result.message
              /\ hasPunchIn' = FALSE
              /\ UpdateCalendarState(selectedYear, selectedMonth)
              /\ net' = Resume(a, UpdateCalendarRequests(selectedUser,
                                    selectedYear, selectedMonth))
         ELSE /\ message' =
                   IF "action_required" \in DOMAIN r.result
                        /\ r.result.action_required = "manual_punch_in"
                     THEN ManualPunchInPrompt
                     ELSE message
              /\ net' = Resume(a, One(ReqOf(r)))
              /\ UNCHANGED <<hasPunchIn, currentDate, calendarData>>
    /\ UNCHANGED <<serviceVars, selection, selectedUserData, userList, gestures, harness>>

\* punchOut(), after the await: the try branch, the manual_punch_in branch of
\* the catch, and its else branch.
RecvPunchOut ==
  \E a \in Arrivals("punchOut") :
    LET r == a.resp IN
    /\ IF r.ok
         THEN /\ message' = r.result.message
              /\ hasPunchIn' = FALSE
              /\ UpdateCalendarState(selectedYear, selectedMonth)
              /\ net' = Resume(a, UpdateCalendarRequests(selectedUser,
                                    selectedYear, selectedMonth))
         ELSE /\ message' =
                   IF "action_required" \in DOMAIN r.result
                        /\ r.result.action_required = "manual_punch_in"
                     THEN ManualPunchInPrompt
                     ELSE message
              /\ net' = Resume(a, EmptyBag)
              /\ UNCHANGED <<hasPunchIn, currentDate, calendarData>>
    /\ UNCHANGED <<serviceVars, selection, selectedUserData, userList, gestures, harness>>

\* Click on the bin of a shown event, confirmed: deleteEntry(event) up to its await.
ClickDelete ==
  \E e \in ShownEvents :
    /\ Quiet
    /\ net' = Send(One(Req("delete", [id |-> e.id])))
    /\ gestures' = gestures + 1
    /\ UNCHANGED <<serviceVars, hasPunchIn, message, selection, selectedUserData,
                   userList, currentDate, calendarData, harness>>

\* deleteEntry(event), after the await.
RecvDelete ==
  \E a \in Arrivals("delete") :
    LET r == a.resp IN
    /\ IF r.ok
         THEN /\ UpdateCalendarState(selectedYear, selectedMonth)
              /\ net' = Resume(a, UpdateCalendarRequests(selectedUser,
                                    selectedYear, selectedMonth))
              /\ UNCHANGED message
         ELSE /\ message' = "Error deleting entry"
              /\ net' = Resume(a, EmptyBag)
              /\ UNCHANGED <<currentDate, calendarData>>
    /\ UNCHANGED <<serviceVars, hasPunchIn, selection, selectedUserData,
                   userList, gestures, harness>>

\* A submitForm that sends the hours typed in whatever the reporting type is.
FormTimestampsTyped(rtype, date, hours) ==
  <<Time(date.year, date.month, date.day, hours[1]),
    Time(date.year, date.month, date.day, hours[2])>>

\* The two timestamps submitForm sends: for 'work' the hours typed in, on the
\* form's day; for the other reporting types 00:00 on that day, twice.
FormTimestamps(rtype, date, hours) ==
  IF rtype = "work"
    THEN <<Time(date.year, date.month, date.day, hours[1]),
           Time(date.year, date.month, date.day, hours[2])>>
    ELSE <<Time(date.year, date.month, date.day, 0),
           Time(date.year, date.month, date.day, 0)>>

\* Click on the add button of a day (addEntry, openForm with a date), the
\* form filled in and submitted: submitForm up to its await, not editing.
SubmitNewEntry ==
  \E c \in ShownCells, n \in DOMAIN weekDays, rtype \in ReportingTypes,
     hours \in FormHours :
    /\ Quiet
    /\ c.day \in FormDays
    /\ c \in {calendarData[w][weekDays[n]] : w \in 1..Len(calendarData)}
    /\ ~isDayOff(selectedUserData, calendarData, c.day, weekDays[n])
    /\ LET date == [year |-> selectedYear, month |-> selectedMonth, day |-> c.day]
           ts   == FormTimestamps(rtype, date, hours)
       IN  net' = Send(One(Req("create",
                    [user_email |-> selectedUser, punch_type |-> 1,
                     reporting_type |-> rtype, punch_in_timestamp |-> ts[1],
                     punch_out_timestamp |-> ts[2]])))
    /\ gestures' = gestures + 1
    /\ UNCHANGED <<serviceVars, hasPunchIn, message, selection, selectedUserData,
                   userList, currentDate, calendarData, harness>>

\* Click on the pencil of a shown event (editEntry, openForm with the event),
\* the form changed and submitted: submitForm up to its await, editing.
\* IsoInTime and IsoOutTime are both the event's inTime.
SubmitEdit ==
  \E e \in ShownEvents, rtype \in ReportingTypes, hours \in FormHours :
    /\ Quiet
    /\ LET ts == FormTimestamps(rtype, e.inTime, hours)
       IN  net' = Send(One(Req("edit",
                    [id |-> e.id, punch_type |-> 1, reporting_type |-> rtype,
                     punch_in_timestamp |-> ts[1],
                     punch_out_timestamp |-> ts[2]])))
    /\ gestures' = gestures + 1
    /\ UNCHANGED <<serviceVars, hasPunchIn, message, selection, selectedUserData,
                   userList, currentDate, calendarData, harness>>

\* submitForm after the await; on success the view's handler of
\* timestampCreated / timestampUpdated runs: updateCalendar.
RecvSubmit ==
  \E a \in Arrivals("create") \cup Arrivals("edit") :
    LET r == a.resp IN
    /\ r.args.punch_type = 1
    /\ IF r.ok
         THEN /\ UpdateCalendarState(selectedYear, selectedMonth)
              /\ net' = Resume(a, UpdateCalendarRequests(selectedUser,
                                    selectedYear, selectedMonth))
         ELSE /\ net' = Resume(a, EmptyBag)
              /\ UNCHANGED <<currentDate, calendarData>>
    /\ UNCHANGED <<serviceVars, hasPunchIn, message, selection, selectedUserData,
                   userList, gestures, harness>>

\* fetchTimeEntries(currentDate), after the await; r.args.year and
\* r.args.month are the currentDate it was called with.  When the call is the
\* one onMounted awaits, onMounted goes on: fetchSelf(), fetchUsers().
ApplyTimeEntries(a) ==
    LET r == a.resp IN
    /\ IF r.ok
         THEN \E q \in Orderings(r.result) :
                calendarData' =
                  AttachEvents(calendarData, [k \in DOMAIN q |-> EventOf(q[k])],
                               r.args.year, r.args.month)
         ELSE UNCHANGED calendarData
    /\ net' = Resume(a,
                IF r.args.mount
                  THEN One(Req("getByEmail", [user_email |-> AuthUser]))
                       (+) One(UsersReq(AuthCompany, FALSE))
                  ELSE EmptyBag)
    /\ UNCHANGED <<serviceVars, hasPunchIn, message, selection, selectedUserData,
                   userList, currentDate, gestures, harness>>

RecvTimeEntries == \E a \in Arrivals("getRange") : ApplyTimeEntries(a)

\* fetchSelf(), after the await.
RecvSelf ==
  \E a \in Arrivals("getByEmail") :
    LET r == a.resp IN
    /\ selectedUserData' = IF r.ok THEN r.result.weekend_choice
                           ELSE selectedUserData
    /\ net' = Resume(a, EmptyBag)
    /\ UNCHANGED <<serviceVars, hasPunchIn, message, selection, userList,
                   currentDate, calendarData, gestures, harness>>

\* No user is selected.
NoUser == ""

\* fetchUsers(), after the await; when it was called by watch(selectedCompany)
\* its then() follows: selectedUser.value = '', on which watch(selectedUser)
\* does nothing (newUser != '' fails).
RecvUsers ==
  \E a \in Arrivals("getCompanyUsers") :
    LET r == a.resp IN
    /\ userList' = IF r.ok THEN r.result ELSE userList
    /\ selectedUser' = IF r.args.clear THEN NoUser ELSE selectedUser
    /\ net' = Resume(a, EmptyBag)
    /\ UNCHANGED <<serviceVars, hasPunchIn, message, selectedYear, selectedMonth,
                   selectedCompany, selectedUserData, currentDate, calendarData,
                   gestures, harness>>

\* The company selector is moved: watch(selectedCompany) calls fetchUsers.
SelectCompany ==
  \E c \in Companies :
    /\ Quiet /\ c # selectedCompany
    /\ selectedCompany' = c
    /\ net' = Send(One(UsersReq(c, TRUE)))
    /\ gestures' = gestures + 1
    /\ UNCHANGED <<serviceVars, hasPunchIn, message, selectedUser, selectedYear,
                   selectedMonth, selectedUserData, userList, currentDate,
                   calendarData, harness>>

\* The month selector is moved: watch(selectedMonth) runs updateCalendar.
SelectMonth ==
  \E m \in SelectableMonths :
    /\ Quiet /\ m # selectedMonth
    /\ selectedMonth' = m
    /\ UpdateCalendarState(selectedYear, m)
    /\ net' = Send(UpdateCalendarRequests(selectedUser, selectedYear, m))
    /\ gestures' = gestures + 1
    /\ UNCHANGED <<serviceVars, hasPunchIn, message, selectedUser, selectedYear,
                   selectedCompany,
                   selectedUserData, userList, harness>>

\* The year selector is moved: watch(selectedYear) runs updateCalendar.
SelectYear ==
  \E y \in SelectableYears :
    /\ Quiet /\ y # selectedYear
    /\ selectedYear' = y
    /\ UpdateCalendarState(y, selectedMonth)
    /\ net' = Send(UpdateCalendarRequests(selectedUser, y, selectedMonth))
    /\ gestures' = gestures + 1
    /\ UNCHANGED <<serviceVars, hasPunchIn, message, selectedUser, selectedMonth,
                   selectedCompany,
                   selectedUserData, userList, harness>>

\* The user selector (its items are userList) is moved: watch(selectedUser)
\* looks the user up in userList and runs updateCalendar.
SelectUser ==
  \E u \in DOMAIN userList :
    /\ Quiet /\ u # selectedUser
    /\ selectedUser' = u
    /\ selectedUserData' = userList[u]
    /\ UpdateCalendarState(selectedYear, selectedMonth)
    /\ net' = Send(UpdateCalendarRequests(u, selectedYear, selectedMonth))
    /\ gestures' = gestures + 1
    /\ UNCHANGED <<serviceVars, hasPunchIn, message, selectedYear, selectedMonth,
                   selectedCompany,
                   userList, harness>>

\* What the service may hold when the view is opened, as earlier sessions
\* left it: nothing; a work day of the logged-in user on March 31st; an open
\* punch-in of today.
InitialStores ==
  {<<>>,
   <<Entry(1, AuthUser, 1, "work", Time(2024, 2, 31, 7), Time(2024, 2, 31, 8))>>,
   <<Entry(1, AuthUser, 0, "work",
           Time(Today.year, Today.month, Today.day, Clock.punchIn), NoTime)>>}

\* Today's column key, and whether today is a rest day of user u.
TodayName == weekDays[GetDay(MakeDay(Today.year, Today.month, Today.day)) + 1]
RestDayToday(u) == isWeekend(profile[u], TodayName)

(***************************************************************************)
(* The login page: its refs and what the login service may answer.         *)
(***************************************************************************)
\* Bounds of the login page's exploration.
MaxLoginGestures == 4
MaxLoginCalls == 2

\* What the user types into the two text fields.
LoginEmails == {"u1", "u2"}
LoginPasswords == {"pw", "bad"}

\* authStore.user before setUser.
NoAuthUser == [email |-> "", named |-> FALSE]

\* What api.post / api.get reject with: an error without a response, or with
\* one, whose body is empty or not, and carries an error text or none ("").
LoginFailures ==
  {[response |-> FALSE, body |-> FALSE, text |-> ""],
   [response |-> TRUE, body |-> FALSE, text |-> ""],
   [response |-> TRUE, body |-> TRUE, text |-> ""],
   [response |-> TRUE, body |-> TRUE, text |-> "Invalid credentials"]}

\* The login page before it is mounted.
LoginUnmounted ==
  /\ form = [email |-> "", password |-> "", remember |-> FALSE]
  /\ loginError = ""
  /\ route = ""
  /\ authUser = NoAuthUser
  /\ loginCalls = {}
  /\ loginGestures = 0

(***************************************************************************)
(* The report view: its refs, generateReport and the header's date range.  *)
(* The company and user selections are left out: they choose whose report  *)
(* is asked for and touch none of the refs below.                          *)
(***************************************************************************)
\* Bounds of the report view's exploration.
MaxReportGestures == 3
MaxReportCalls == 2

\* reportTypeOptions, for a network administrator (who has all three).
ReportTypeOptions == {"user", "company", "overview"}

\* dateRangeOptions.
DateRangeOptions == {"monthly", "custom"}

\* The years and months offered by the two selects that the model tries.
ReportYears == {Today.year, Today.year + 1}
ReportMonths == {1, Today.month, 11}

\* A Date held by startDate / endDate, and null.
NoDate == [year |-> 0, month |-> 0, day |-> 0]
DateOfDay(t, y) ==
  LET yy  == YearFromDay(t, y)
      doy == t - DayFromYear(yy)
      mm  == CHOOSE m \in 0..11 :
               DaysBeforeMonth(yy, m) <= doy /\ doy < DaysBeforeMonth(yy, m + 1)
  IN  [year |-> yy, month |-> mm, day |-> doy - DaysBeforeMonth(yy, mm) + 1]

\* new Date(y, m, d) as a calendar date (d = 0 is the last day of month m - 1).
NewDate(y, m, d) == DateOfDay(MakeDay(y, m, d), y)

\* The dates the two date pickers are given.
PickedDates == {NewDate(Today.year, 1, 27), NewDate(Today.year, 2, 3)}

\* reportData: null, or the answer of the report service (of which only the
\* kind of report is kept).
NoReport == [present |-> FALSE, kind |-> ""]
ReportOf(kind) == [present |-> TRUE, kind |-> kind]

\* The params of a request, and no request.
NoRequest == [mode |-> "", year |-> 0, month |-> 0, start |-> NoDate, end |-> NoDate]
MonthlyParams == 
  [mode |-> "monthly", year |-> reportYear, month |-> reportMonth + 1,
   start |-> NoDate, end |-> NoDate]
CustomParams ==
  [mode |-> "custom", year |-> 0, month |-> 0, start |-> startDate, end |-> endDate]

\* What api.get rejects with: an error with or without a response, whose body
\* carries an error text or none ("").
ServerTexts == {"Company not found"}
Failures ==
  [response : {TRUE}, text : ServerTexts \cup {""}] \cup
  {[response |-> FALSE, text |-> ""]}
Fallback == "Network error or server unavailable"

\* const dateRange = ref({...}): built once in setup from the refs' values of
\* that moment, and assigned nowhere afterwards.
dateRange ==
  [type |-> "monthly", year |-> Today.year, month |-> Today.month,
   startDate |-> NoDate, endDate |-> NoDate]

\* toLocaleDateString('en-US', { year: 'numeric', month: 'short',
\* day: 'numeric' }), with weekday: 'short' in formatDate.
ShortMonths ==
  <<"Jan", "Feb", "Mar", "Apr", "May", "Jun", "Jul", "Aug", "Sep", "Oct",
    "Nov", "Dec">>
ShortWeekdays == <<"Sun", "Mon", "Tue", "Wed", "Thu", "Fri", "Sat">>
toLocaleDateString(d) ==
  ShortMonths[d.month + 1] \o " " \o ToString(d.day) \o ", " \o ToString(d.year)

\* formatDate(dateString); new Date(null) is the epoch (read in UTC).
formatDate(d) ==
  LET date == IF d = NoDate THEN DateOfDay(0, 1970) ELSE d
  IN  ShortWeekdays[GetDay(MakeDay(date.year, date.month, date.day)) + 1]
        \o ", " \o toLocaleDateString(date)

\* computed formattedDateRange.
formattedDateRange ==
  IF dateRangeType = "monthly"
  THEN toLocaleDateString(NewDate(dateRange.year, dateRange.month, 1)) \o " - " \o
       toLocaleDateString(NewDate(dateRange.year, dateRange.month + 1, 0))
  ELSE formatDate(startDate) \o " - " \o formatDate(endDate)

\* The report view before it is mounted.
ReportUnmounted ==
  /\ reportType = "user"
  /\ dateRangeType = "monthly"
  /\ reportYear = Today.year
  /\ reportMonth = Today.month
  /\ startDate = NoDate
  /\ endDate = NoDate
  /\ reportData = NoReport
  /\ serverErrorMessage = ""
  /\ adminNames = <<>>
  /\ reportCalls = {}
  /\ producedBy = NoRequest
  /\ reportGestures = 0

\* The view after setup and onMounted up to its await: checkPunchInStatus()
\* and fetchTimeEntries(currentDate) are in flight, the grid of the current
\* month is built and empty.
SessionInit ==
  /\ profile \in {[u \in Users |-> IF u = AuthUser THEN wc ELSE OtherChoice] :
                    wc \in AuthChoices}
  /\ \E held \in InitialStores :
       /\ store = {held[k] : k \in 1..Len(held)}
       /\ owner = [k \in 1..Len(held) |-> held[k].user_email]
       /\ \A k \in 1..Len(held) :
            held[k].punch_type = 0 => ~RestDayToday(held[k].user_email)
  /\ hasPunchIn = FALSE
  /\ message = ""
  /\ selectedUser = AuthUser
  /\ selectedUserData = NoChoice
  /\ userList = <<>>
  /\ selectedYear = Today.year
  /\ selectedMonth = Today.month
  /\ selectedCompany = AuthCompany
  /\ currentDate = [year |-> Today.year, month |-> Today.month]
  /\ calendarData = BuildCalendar(Today.year, Today.month)
  /\ net = One(StatusReq) (+) One(RangeReq(AuthUser, Today.year, Today.month, TRUE))
  /\ gestures = 0

Init ==
  /\ SessionInit
  /\ pin = [fn |-> "none"]
  /\ pout = NotRun
  /\ ReportUnmounted
  /\ LoginUnmounted

Next ==
  \/ ServeCreate
  \/ ServePunchOut
  \/ ServeDelete
  \/ ServeEdit
  \/ RecvPunchInStatus
  \/ ClickPunchIn
  \/ RecvPunchIn
  \/ ClickPunchOut
  \/ RecvPunchOut
  \/ ClickDelete
  \/ RecvDelete
  \/ SubmitNewEntry
  \/ SubmitEdit
  \/ RecvSubmit
  \/ RecvTimeEntries
  \/ RecvSelf
  \/ RecvUsers
  \/ SelectMonth
  \/ SelectYear
  \/ SelectUser
  \/ SelectCompany

Spec == Init /\ [][Next]_vars

\* checkPunchInStatus, after the await, when the query has succeeded.
RecvPunchInStatusOk ==
  \E a \in Arrivals("punchInStatus") : a.resp.ok /\ ApplyPunchInStatus(a)

\* The session in which no punch-in status query fails.
StatusOkNext ==
  \/ ServeCreate
  \/ ServePunchOut
  \/ ServeDelete
  \/ ServeEdit
  \/ RecvPunchInStatusOk
  \/ ClickPunchIn
  \/ RecvPunchIn
  \/ ClickPunchOut
  \/ RecvPunchOut
  \/ ClickDelete
  \/ RecvDelete
  \/ SubmitNewEntry
  \/ SubmitEdit
  \/ RecvSubmit
  \/ RecvTimeEntries
  \/ RecvSelf
  \/ RecvUsers
  \/ SelectMonth
  \/ SelectYear
  \/ SelectUser
  \/ SelectCompany

StatusOkSpec == Init /\ [][StatusOkNext]_vars

(***************************************************************************)
(* The user form: the weekend choice read from the user and written back.  *)
(*                                                                         *)
(* Here a string is the sequence of its characters, so that split and join *)
(* are computed: "Fri,Sat" is <<"F", "r", "i", ",", "S", "a", "t">> and    *)
(* the empty string is <<>>.                                               *)
(***************************************************************************)
\* const weekDays of the user form: the values of the seven checkboxes.
UserFormWeekDays ==
  <<"Sunday", "Monday", "Tuesday", "Wednesday", "Thursday", "Friday", "Saturday">>

\* The characters of the weekday names in use.
CharsOf(name) ==
  CASE name = "Sunday" -> <<"S", "u", "n", "d", "a", "y">>
    [] name = "Monday" -> <<"M", "o", "n", "d", "a", "y">>
    [] name = "Tuesday" -> <<"T", "u", "e", "s", "d", "a", "y">>
    [] name = "Wednesday" -> <<"W", "e", "d", "n", "e", "s", "d", "a", "y">>
    [] name = "Thursday" -> <<"T", "h", "u", "r", "s", "d", "a", "y">>
    [] name = "Friday" -> <<"F", "r", "i", "d", "a", "y">>
    [] name = "Saturday" -> <<"S", "a", "t", "u", "r", "d", "a", "y">>
    [] name = "saturday" -> <<"s", "a", "t", "u", "r", "d", "a", "y">>
    [] name = "SUNDAY" -> <<"S", "U", "N", "D", "A", "Y">>

\* The string of a sequence of characters.
RECURSIVE StringOf(_)
StringOf(chars) == IF chars = <<>> THEN "" ELSE Head(chars) \o StringOf(Tail(chars))

\* String.prototype.split(','), from the characters left on: piece is the
\* piece being read, pieces the pieces closed by a comma so far.
RECURSIVE SplitFrom(_, _, _)
SplitFrom(chars, piece, pieces) ==
  IF chars = <<>> THEN Append(pieces, piece)
  ELSE IF Head(chars) = ","
    THEN SplitFrom(Tail(chars), <<>>, Append(pieces, piece))
    ELSE SplitFrom(Tail(chars), Append(piece, Head(chars)), pieces)

Split(chars) == SplitFrom(chars, <<>>, <<>>)

\* An Array.join that puts a comma and a blank between the elements.
RECURSIVE JoinSpaced(_)
JoinSpaced(pieces) ==
  IF pieces = <<>> THEN <<>>
  ELSE IF Len(pieces) = 1 THEN pieces[1]
  ELSE pieces[1] \o <<",", " ">> \o JoinSpaced(Tail(pieces))

\* Array.prototype.join(',')
RECURSIVE Join(_)
Join(pieces) ==
  IF pieces = <<>> THEN <<>>
  ELSE IF Len(pieces) = 1 THEN pieces[1]
  ELSE pieces[1] \o <<",">> \o Join(Tail(pieces))

\* openForm(user): selectedWeekDays = user.weekend_choice ?
\* user.weekend_choice.split(',') : [].  A user is [present, chars]: whether
\* weekend_choice is a string at all (not null), and its characters.
openFormWeekDays(user) ==
  IF user.present /\ user.chars # <<>> THEN Split(user.chars) ELSE <<>>

\* submitForm: weekend_choice: selectedWeekDays.join(',')
submitFormWeekendChoice(selectedWeekDays) == Join(selectedWeekDays)

\* The weekend_choice string as the Time Watch view holds it: the pieces
\* between its commas, each a string.
WeekendChoiceOf(chars) ==
  LET pieces == Split(chars) IN [k \in 1..Len(pieces) |-> StringOf(pieces[k])]

(***************************************************************************)
(* The report view: the total of the hours worked in a company report.     *)
(***************************************************************************)
\* The decimal digits, and the characters of a non-negative number.
DigitChars == <<"0", "1", "2", "3", "4", "5", "6", "7", "8", "9">>
RECURSIVE DigitsOf(_)
DigitsOf(n) ==
  IF n < 10 THEN <<DigitChars[n + 1]>>
  ELSE Append(DigitsOf(n \div 10), DigitChars[(n % 10) + 1])

\* An "HH:MM" string of the report service, as its characters: at least two
\* digits each for the hours and the minutes.
ServiceTime(h, m) ==
  LET pad(n) == IF n < 10 THEN <<"0">> \o DigitsOf(n) ELSE DigitsOf(n)
  IN  pad(h) \o <<":">> \o pad(m)

\* String.prototype.split(':').
RECURSIVE SplitColonFrom(_, _, _)
SplitColonFrom(chars, piece, pieces) ==
  IF chars = <<>> THEN Append(pieces, piece)
  ELSE IF Head(chars) = ":"
    THEN SplitColonFrom(Tail(chars), <<>>, Append(pieces, piece))
    ELSE SplitColonFrom(Tail(chars), Append(piece, Head(chars)), pieces)

SplitColon(chars) == SplitColonFrom(chars, <<>>, <<>>)

\* Number(str) of a string of decimal digits ('' is 0).
RECURSIVE NumberFrom(_, _)
NumberFrom(chars, acc) ==
  IF chars = <<>> THEN acc
  ELSE NumberFrom(Tail(chars),
         10 * acc + (CHOOSE d \in 0..9 : DigitChars[d + 1] = Head(chars)))

Number(chars) == NumberFrom(chars, 0)

\* reportData.value.forEach(user => { totalSeconds += hours * 3600 +
\* minutes * 60 }), from totalSeconds = acc on.
RECURSIVE SumSeconds(_, _)
SumSeconds(users, acc) ==
  IF users = <<>> THEN acc
  ELSE LET parts   == SplitColon(Head(users))
           hours   == Number(parts[1])
           minutes == Number(parts[2])
       IN  SumSeconds(Tail(users), acc + hours * 3600 + minutes * 60)

\* A total rendered as formatTimeFromSeconds renders, with Math.round.
totalHoursWorkedRounded(users) ==
  LET totalSeconds == SumSeconds(users, 0)
      totalHours   == MathRound(totalSeconds, 3600)
      totalMinutes == MathRound(totalSeconds % 3600, 60)
  IN  PadStart2(ToString(totalHours)) \o ":" \o PadStart2(ToString(totalMinutes))

\* computed totalHoursWorked, reportData being the array users of the
\* totalHoursWorked strings (an empty array and null give "00:00" alike).
totalHoursWorked(users) ==
  LET totalSeconds == SumSeconds(users, 0)
      totalHours   == MathFloor(totalSeconds, 3600)
      totalMinutes == MathFloor(totalSeconds % 3600, 60)
  IN  PadStart2(ToString(totalHours)) \o ":" \o PadStart2(ToString(totalMinutes))

\* The users of the company reports tried: at most MaxReportUsers, each with
\* the hours and minutes the service has written into its string.
MaxReportUsers == 2
ReportedHours == {0, 7, 160}
ReportedMinutes == {0, 30, 45, 60}

(***************************************************************************)
(* Pure-function harness: an input is drawn, the function is applied.      *)
(***************************************************************************)
\* Largest number of seconds given to formatTimeFromSeconds.
MaxSeconds == 7200

\* Largest numerator of a work capacity in hours, and the denominators drawn:
\* whole hours, half hours, and sevenths, whose seconds are no integer.
MaxHours == 24
HourParts == {1, 2, 7}

\* What the time fields of the form hold: nothing, or a time of the morning.
FormTimes == {<<>>} \cup {<<h, m>> : h \in {8, 9}, m \in {0, 30}}

\* Largest number of checkboxes ticked in the user form (the whole week is
\* drawn besides), and the users the form is opened on: without weekend
\* choice, with an empty one, with one as the form writes it and with one in
\* other casing.
MaxTicked == 2
StoredUsers ==
  {[present |-> FALSE, chars |-> <<>>], [present |-> TRUE, chars |-> <<>>],
   [present |-> TRUE, chars |-> CharsOf("Friday")],
   [present |-> TRUE, chars |-> CharsOf("Friday") \o <<",">> \o CharsOf("Saturday")],
   [present |-> TRUE, chars |-> CharsOf("saturday") \o <<",">> \o CharsOf("SUNDAY")]}

\* Weekday names as toLocaleDateString('en-US', {weekday: 'long'}) gives them.
LongWeekDays ==
  <<"Sunday", "Monday", "Tuesday", "Wednesday", "Thursday", "Friday", "Saturday">>

\* weekend_choice values drawn: absent, empty, as the user form writes them,
\* and in inconsistent casing.
HarnessChoices ==
  {NoChoice, EmptyString, <<"Friday", "Saturday">>, <<"saturday", "SUNDAY">>}

\* Events as calculateDailyTotal reads them; inHour and outHour are the hours
\* of inTime and outTime (outHour 0: no punch-out).
HarnessEvents ==
  [reporting_type : ReportingTypes, total_time : {-3600, 0, 1800, 28800},
   inHour : {0, 9}, outHour : {0, 17}]

CellEvents ==
  [reporting_type : ReportingTypes, total_time : {0, 28800},
   inHour : {9}, outHour : {17}]

\* Entries of today as the service returns them: punched in at nine, still
\* open or punched out at ten or at seventeen.
HarnessEntries ==
  {Entry(1, AuthUser, 1, rt, Time(Today.year, Today.month, Today.day, Clock.punchIn), tout) :
     rt \in ReportingTypes,
     tout \in {NoTime} \cup {Time(Today.year, Today.month, Today.day, h) :
                                h \in {Clock.punchIn + 1, Clock.punchOut}}}

\* Years given to buildCalendar: a run of years and three century years.
HarnessYears == (MinYear..MaxYear) \cup {1900, 2000, 2100}

SeqsUpTo(S, n) == UNION {[1..k -> S] : k \in 0..n}

\* The checkboxes ticked, in the order of ticking.
Tickings ==
  {q \in SeqsUpTo({UserFormWeekDays[k] : k \in 1..7}, MaxTicked) :
     \A i, j \in 1..Len(q) : i # j => q[i] # q[j]}
  \cup {UserFormWeekDays}

PureInputs ==
       [fn : {"buildCalendar"}, year : HarnessYears, month : 0..11]
  \cup [fn : {"calculateDailyTotal"}, events : SeqsUpTo(HarnessEvents, MaxEvents)]
  \cup [fn : {"formatTimeFromSeconds"}, seconds : 0..MaxSeconds]
  \cup [fn : {"formatTimeFromHours"}, num : 0..MaxHours, den : HourParts]
  \cup [fn : {"calendarCell"}, wc : HarnessChoices,
        dayName : {weekDays[k] : k \in 1..7},
        events : SeqsUpTo(CellEvents, MaxEvents)]
  \cup [fn : {"reportingType"}, wc : HarnessChoices,
        weekday : {LongWeekDays[k] : k \in 1..7},
        reportingType : ReportingTypes \cup {"none"}]
  \cup [fn : {"dayOfEntries"}, wc : HarnessChoices,
        weekday : {LongWeekDays[k] : k \in 1..7},
        entries : SeqsUpTo(HarnessEntries, MaxEvents)]
  \cup [fn : {"isWeekend"}, wc : HarnessChoices,
        dayName : {weekDays[k] : k \in 1..7} \cup {LongWeekDays[k] : k \in 1..7}]
  \cup [fn : {"monthView"}, year : HarnessYears, month : 0..11,
        wc : HarnessChoices \cup {OtherChoice}]
  \cup [fn : {"validateEndTime"}, endTime : FormTimes, inTime : FormTimes]
  \cup [fn : {"userFormUntouched"}, user : StoredUsers]
  \cup [fn : {"userFormTicked"}, ticked : Tickings]
  \cup [fn : {"totalHoursWorked"},
        users : SeqsUpTo([h : ReportedHours, m : ReportedMinutes], MaxReportUsers)]
  \cup [fn : {"classifyDay"}, wc : HarnessChoices,
        weekday : {LongWeekDays[k] : k \in 1..7},
        events : SeqsUpTo(CellEvents, MaxEvents)]

RunBuildCalendar ==
  /\ pin.fn = "buildCalendar" /\ ~pout.done
  /\ pout' = Result(BuildCalendar(pin.year, pin.month))
  /\ UNCHANGED <<pin, sessionVars, otherViews>>

RunCalculateDailyTotal ==
  /\ pin.fn = "calculateDailyTotal" /\ ~pout.done
  /\ pout' = Result(calculateDailyTotal(pin.events))
  /\ UNCHANGED <<pin, sessionVars, otherViews>>

RunFormatTimeFromSeconds ==
  /\ pin.fn = "formatTimeFromSeconds" /\ ~pout.done
  /\ pout' = Result(formatTimeFromSeconds(pin.seconds))
  /\ UNCHANGED <<pin, sessionVars, otherViews>>

RunFormatTimeFromHours ==
  /\ pin.fn = "formatTimeFromHours" /\ ~pout.done
  /\ pout' = Result(formatTimeFromHours(pin.num, pin.den))
  /\ UNCHANGED <<pin, sessionVars, otherViews>>

\* isWeekend of the Time Watch view and isWeekend of the report view, each
\* called with the same day name on the same weekend choice.
RunIsWeekend ==
  /\ pin.fn = "isWeekend" /\ ~pout.done
  /\ pout' = Result([timeWatch |-> isWeekend(pin.wc, pin.dayName),
                      report    |-> isWeekendReport(pin.wc, pin.dayName)])
  /\ UNCHANGED <<pin, sessionVars, otherViews>>

\* The calendar table of a month without entries: buildCalendar, then the
\* cell template on every cell of every row.
RunMonthView ==
  /\ pin.fn = "monthView" /\ ~pout.done
  /\ LET grid == BuildCalendar(pin.year, pin.month)
     IN  pout' = Result(
           [grid  |-> grid,
            cells |-> [w \in 1..Len(grid) |->
                        [n \in {weekDays[k] : k \in 1..7} |->
                           CalendarCellView(pin.wc, grid, n, grid[w][n])]]])
  /\ UNCHANGED <<pin, sessionVars, otherViews>>

RunValidateEndTime ==
  /\ pin.fn = "validateEndTime" /\ ~pout.done
  /\ pout' = Result(validateEndTime(pin.endTime, pin.inTime))
  /\ UNCHANGED <<pin, sessionVars, otherViews>>

\* The user form opened on a user and submitted as it is: the weekend_choice
\* sent.
RunUserFormUntouched ==
  /\ pin.fn = "userFormUntouched" /\ ~pout.done
  /\ pout' = Result(submitFormWeekendChoice(openFormWeekDays(pin.user)))
  /\ UNCHANGED <<pin, sessionVars, otherViews>>

\* The user form submitted with checkboxes ticked, and the days of the week
\* that isWeekend of the Time Watch view then takes for rest days.
RunUserFormTicked ==
  /\ pin.fn = "userFormTicked" /\ ~pout.done
  /\ LET ticked == [k \in 1..Len(pin.ticked) |-> CharsOf(pin.ticked[k])]
         sent   == submitFormWeekendChoice(ticked)
     IN  pout' = Result(
           [sent     |-> sent,
            restDays |-> {k \in 1..7 : isWeekend(WeekendChoiceOf(sent), weekDays[k])}])
  /\ UNCHANGED <<pin, sessionVars, otherViews>>

RunCalendarCell ==
  /\ pin.fn = "calendarCell" /\ ~pout.done
  /\ LET cell == [day |-> Today.day, events |-> pin.events]
         grid == <<[n \in {weekDays[k] : k \in 1..7} |->
                      IF n = pin.dayName THEN cell ELSE BlankCell]>>
     IN  pout' = Result(CalendarCellView(pin.wc, grid, pin.dayName, cell))
  /\ UNCHANGED <<pin, sessionVars, otherViews>>

RunReportingTypeColumn ==
  /\ pin.fn = "reportingType" /\ ~pout.done
  /\ pout' = Result(ReportingTypeColumn(pin.wc, pin.weekday, pin.reportingType))
  /\ UNCHANGED <<pin, sessionVars, otherViews>>

\* A day's entries as both views show them: the report's daily row, whose
\* reportingType the report service has derived, and the day-off test of the
\* Time Watch cell.
RunClassifyDay ==
  /\ pin.fn = "classifyDay" /\ ~pout.done
  /\ pout' = Result(
       [label  |-> ReportingTypeColumn(pin.wc, pin.weekday, ClassifyDay(pin.events)),
        dayOff |-> hasDayOff(TRUE, [day |-> Today.day, events |-> pin.events])])
  /\ UNCHANGED <<pin, sessionVars, otherViews>>

\* The entries of one day from the service's answer to what is shown for the
\* day: the entry mapping of fetchTimeEntries, then the day's total and the
\* day's row of the report.
RunDayOfEntries ==
  /\ pin.fn = "dayOfEntries" /\ ~pout.done
  /\ LET events == [k \in 1..Len(pin.entries) |-> EventOf(pin.entries[k])]
     IN  pout' = Result(
           [total |-> calculateDailyTotal(events),
            label |-> ReportingTypeColumn(pin.wc, pin.weekday, ClassifyDay(events))])
  /\ UNCHANGED <<pin, sessionVars, otherViews>>

\* The company report of the users drawn: the strings of the service, and the
\* total the view shows under them.
RunTotalHoursWorked ==
  /\ pin.fn = "totalHoursWorked" /\ ~pout.done
  /\ LET users == [k \in 1..Len(pin.users) |->
                     ServiceTime(pin.users[k].h, pin.users[k].m)]
     IN  pout' = Result([users |-> users, shown |-> totalHoursWorked(users)])
  /\ UNCHANGED <<pin, sessionVars, otherViews>>

PureNext ==
  \/ RunBuildCalendar
  \/ RunCalculateDailyTotal
  \/ RunFormatTimeFromSeconds
  \/ RunFormatTimeFromHours
  \/ RunIsWeekend
  \/ RunMonthView
  \/ RunValidateEndTime
  \/ RunUserFormUntouched
  \/ RunUserFormTicked
  \/ RunCalendarCell
  \/ RunReportingTypeColumn
  \/ RunClassifyDay
  \/ RunDayOfEntries
  \/ RunTotalHoursWorked

\* The harness runs beside a view that is not mounted: nothing is in flight.
PureInit ==
  /\ pin \in PureInputs
  /\ pout = NotRun
  /\ store = {}
  /\ owner = <<>>
  /\ profile = [u \in Users |-> OtherChoice]
  /\ hasPunchIn = FALSE
  /\ message = ""
  /\ selectedUser = AuthUser
  /\ selectedUserData = NoChoice
  /\ userList = <<>>
  /\ selectedYear = Today.year
  /\ selectedMonth = Today.month
  /\ selectedCompany = AuthCompany
  /\ currentDate = [year |-> Today.year, month |-> Today.month]
  /\ calendarData = <<>>
  /\ net = EmptyBag
  /\ gestures = 0
  /\ ReportUnmounted
  /\ LoginUnmounted

PureSpec == PureInit /\ [][PureNext]_vars

(***************************************************************************)
(* Properties of the pure functions, checked under PureSpec.               *)
(***************************************************************************)
\* The Gregorian calendar, stated without the Date arithmetic above.
LeapYear(y) == (y % 4 = 0 /\ y % 100 # 0) \/ y % 400 = 0

GregorianDaysInMonth(y, m) ==
  IF m = 1 THEN (IF LeapYear(y) THEN 29 ELSE 28)
  ELSE IF m \in {3, 5, 8, 10} THEN 30 ELSE 31

\* Weekday (0 = Sunday) of the first of 0-based month m of year y, by
\* Sakamoto's method.
GregorianFirstWeekday(y, m) ==
  LET t  == <<0, 3, 2, 5, 0, 3, 5, 1, 4, 6, 2, 4>>
      yy == IF m < 2 THEN y - 1 ELSE y
  IN  (yy + (yy \div 4) - (yy \div 100) + (yy \div 400) + t[m + 1] + 1) % 7

\* The populated cells of a grid as <<row, column>>, columns 0-based.
Populated(grid) ==
  {p \in (1..Len(grid)) \X (0..6) : grid[p[1]][weekDays[p[2] + 1]].day # 0}

\* The first populated cell in reading order.
FirstPopulated(grid) ==
  CHOOSE p \in Populated(grid) :
    \A q \in Populated(grid) : p[1] < q[1] \/ (p[1] = q[1] /\ p[2] <= q[2])

BuiltCalendar == pin.fn = "buildCalendar" /\ pout.done

\* C6: for every (year, month) the grid buildCalendar makes has as many
\* populated cells as the month has days (28, 29, 30 or 31), and its first
\* populated cell is in the column of the weekday the month starts on.
C6_GridMatchesMonth ==
  BuiltCalendar =>
    /\ Cardinality(Populated(pout.value))
         = GregorianDaysInMonth(pin.year, pin.month)
    /\ FirstPopulated(pout.value)[2]
         = GregorianFirstWeekday(pin.year, pin.month)

\* C6 happens: February of a leap year is built with 29 populated cells, the
\* first of them under Thursday.
C6_Witness ==
  /\ BuiltCalendar
  /\ pin.year = 2024 /\ pin.month = 1
  /\ Cardinality(Populated(pout.value)) = 29
  /\ FirstPopulated(pout.value)[2] = 4

\* Position of a weekday name in the week (0 = Sunday), in any casing.
WeekdayIndex(name) ==
  CASE name \in {"Sunday", "SUNDAY", "sunday"}          -> 0
    [] name \in {"Monday", "MONDAY", "monday"}          -> 1
    [] name \in {"Tuesday", "TUESDAY", "tuesday"}       -> 2
    [] name \in {"Wednesday", "WEDNESDAY", "wednesday"} -> 3
    [] name \in {"Thursday", "THURSDAY", "thursday"}    -> 4
    [] name \in {"Friday", "FRIDAY", "friday"}          -> 5
    [] name \in {"Saturday", "SATURDAY", "saturday"}    -> 6
    [] OTHER -> 7

\* The weekdays configured as rest days by weekend_choice wc.
RestDays(wc) == {WeekdayIndex(wc[k]) : k \in 1..Len(wc)} \ {7}

RenderedRestDayCell ==
  /\ pin.fn = "calendarCell" /\ pout.done
  /\ WeekdayIndex(pin.dayName) \in RestDays(pin.wc)

RenderedRestDayRow ==
  /\ pin.fn = "reportingType" /\ pout.done
  /\ WeekdayIndex(pin.weekday) \in RestDays(pin.wc)

\* C7: a day whose weekday is a configured rest day is shown as weekend
\* whatever entries it has, a work entry included, in the calendar cell and
\* in the report's reporting-type column; the cell keeps its entries.
C7_RestDayPrecedence ==
  /\ RenderedRestDayCell =>
       pout.value.weekend /\ pout.value.events = pin.events
  /\ RenderedRestDayRow => pout.value = "Weekend"

\* C7 happens: a rest-day cell holding a work entry is rendered.
C7_Witness ==
  /\ RenderedRestDayCell
  /\ \E k \in 1..Len(pin.events) : pin.events[k].reporting_type = "work"
  /\ pout.value.weekend
  /\ Len(pout.value.events) > 0

OnePaidLeaveTotalled ==
  /\ pin.fn = "calculateDailyTotal" /\ pout.done
  /\ Len(pin.events) = 1
  /\ pin.events[1].reporting_type = "paidoff"

\* C8: the daily total of a day with exactly one paid-leave entry and no
\* other entry is 28800 seconds, whatever the entry's times and total_time.
C8_PaidLeaveIsEightHours == OnePaidLeaveTotalled => pout.value = 28800

\* C8 happens: the single paid-leave entry has no punch-out and a total_time
\* of its own that is not eight hours.
C8_Witness ==
  /\ OnePaidLeaveTotalled
  /\ pin.events[1].total_time = 1800
  /\ pin.events[1].outHour = 0
  /\ pout.value = 28800

Formatted(seconds) ==
  pin.fn = "formatTimeFromSeconds" /\ pout.done /\ pin.seconds = seconds

\* C9: 3600 seconds are formatted "01:00", 5400 seconds "01:30" and 0
\* seconds "00:00".
C9_FormatDurationExamples ==
  /\ Formatted(3600) => pout.value = "01:00"
  /\ Formatted(5400) => pout.value = "01:30"
  /\ Formatted(0) => pout.value = "00:00"

\* The 5400-second case is run: the formatter gives "02:30".
C9_Witness == Formatted(5400) /\ pout.value = "02:30"

(***************************************************************************)
(* Properties of the session, checked under Spec.                          *)
(***************************************************************************)
\* C1: whatever the user does (punch in, punch out, delete, manual entries,
\* a second punch-in sent before the first is answered included), a user has
\* at most one work entry without a punch-out time.
C1_AtMostOneOpenEntry == \A u \in Users : Cardinality(OpenEntries(u)) <= 1

\* Two punch-ins of the logged-in user are open at once.
C1_TwoOpenEntries ==
  /\ Cardinality(OpenEntries(AuthUser)) = 2
  /\ \A e \in OpenEntries(AuthUser) : e.punch_type = 0

\* C2: every entry shown in the grid belongs to the user, year and month
\* that are selected: the response of a fetch made for another selection is
\* dropped.
C2_ShownEntriesBelongToSelection ==
  \A e \in ShownEvents :
    /\ owner[e.id] = selectedUser
    /\ e.inTime.year = selectedYear
    /\ e.inTime.month = selectedMonth

\* An entry of 2024 is shown in the grid of 2025.
C2_StaleEntryShown ==
  /\ selectedYear = 2025
  /\ \E e \in ShownEvents : e.inTime.year = 2024

\* The punch-in entries of user u, by id.
PunchIns(u) == {e.uuid : e \in {x \in store : x.user_email = u /\ x.punch_type = 0}}

\* C3: while a user is punched in today, a further punch-in creates no
\* entry.
C3_SecondPunchInCreatesNothing ==
  [][\A u \in Users : OpenToday(u) # {} => PunchIns(u)' \subseteq PunchIns(u)]_vars

\* The messages of net that the step takes out of it.
Consumed(m) == CopiesIn(m, net') < CopiesIn(m, net)

\* The responses in flight that refuse a punch-out for want of a punch-in.
ManualPunchInAnswers ==
  {m \in BagToSet(net) :
     /\ m.t = "resp" /\ m.kind = "punchOut" /\ ~m.ok
     /\ "action_required" \in DOMAIN m.result}

\* The requests in flight after the step that were not in flight before it.
IssuedRequests ==
  {x \in BagToSet(net') : x.t = "req" /\ CopiesIn(x, net') > CopiesIn(x, net)}

\* C4: a punch-out request handled while the user has no open work entry of
\* today changes no entry and is answered 'manual_punch_in'; the handler
\* that receives the answer shows the prompt to add a manual punch-in entry,
\* changes no entry and sends no request.
C4_PunchOutWithoutPunchIn ==
  [][/\ \A r \in Requests :
          (r.kind = "punchOut" /\ OpenToday(r.args.user_email) = {} /\ Consumed(r))
            => /\ store' = store
               /\ \A x \in BagToSet(net') :
                    (x.t = "resp" /\ x.kind = "punchOut"
                       /\ CopiesIn(x, net') > CopiesIn(x, net))
                      => x \in ManualPunchInAnswers'
     /\ \A m \in ManualPunchInAnswers :
          Consumed(m) => /\ message' = ManualPunchInPrompt
                         /\ store' = store
                         /\ IssuedRequests = {}]_vars

\* C4 happens: the prompt is on display, the user is still without an open
\* entry and nothing is in flight.
C4_Witness ==
  /\ message = ManualPunchInPrompt
  /\ OpenToday(AuthUser) = {}
  /\ net = EmptyBag

\* C5: no punch-in entry is created for a user on a day that is one of the
\* user's configured rest days.
C5_RestDayBlock ==
  [][\A u \in Users : RestDayToday(u) => PunchIns(u)' \subseteq PunchIns(u)]_vars

\* The cells of a grid that hold the entry with the given id.
CellsHolding(grid, id) ==
  {p \in (1..Len(grid)) \X (1..7) :
     \E k \in 1..Len(grid[p[1]][weekDays[p[2]]].events) :
       grid[p[1]][weekDays[p[2]]].events[k].id = id}

\* C10: when the response of a fetch has been applied, each entry of the
\* response is in exactly one cell of the grid, and the day number of that
\* cell is the day of the entry's punch-in date.
C10_EveryEntryInItsCell ==
  [][\A a \in Arrivals("getRange") :
       (a.resp.ok /\ ApplyTimeEntries(a)) =>
         \A e \in a.resp.result :
           /\ Cardinality(CellsHolding(calendarData', e.uuid)) = 1
           /\ \A p \in CellsHolding(calendarData', e.uuid) :
                calendarData'[p[1]][weekDays[p[2]]].day = e.punch_in_timestamp.day]_vars

\* C11: in every state the entries of every cell are in ascending order of
\* punch-in time, in whatever order the service listed them.
C11_CellEntriesSorted ==
  \A c \in ShownCells :
    \A k, l \in 1..Len(c.events) :
      k < l => TimeKey(c.events[k].inTime) <= TimeKey(c.events[l].inTime)

\* C11 happens: a cell shows two entries punched in at different hours.
C11_Witness ==
  \E c \in ShownCells :
    /\ Len(c.events) = 2
    /\ TimeKey(c.events[1].inTime) < TimeKey(c.events[2].inTime)
    /\ c.events[1].id > c.events[2].id

\* The step discards the grid and builds it anew for the selection it ends
\* in: the grid is the empty grid of the selected month and a fresh fetch for
\* the selected user, year and month has been sent.
Rebuilt ==
  LET fetch == RangeReq(selectedUser', selectedYear', selectedMonth', FALSE)
  IN  /\ calendarData' = BuildCalendar(selectedYear', selectedMonth')
      /\ CopiesIn(fetch, net') > CopiesIn(fetch, net)

\* The answers in flight that report a change of an entry: created, edited,
\* deleted, punched in, punched out.
MutationAnswers ==
  {m \in BagToSet(net) :
     m.t = "resp" /\ m.ok /\ m.kind \in {"create", "edit", "delete", "punchOut"}}

\* C12: the grid is rebuilt from scratch (emptied, then fetched afresh) in
\* every step that changes the selected user, year or month and in every
\* step in which the view learns that an entry was created, edited, deleted,
\* punched in or punched out.
C12_RebuiltOnEveryChange ==
  [][/\ <<selectedUser, selectedYear, selectedMonth>>'
          # <<selectedUser, selectedYear, selectedMonth>> => Rebuilt
     /\ \A m \in MutationAnswers : Consumed(m) => Rebuilt]_vars

\* The part of C12 that the view keeps: a rebuild on every change of the
\* selection to a user, year or month, and on every change of an entry.
C12_RebuiltUnlessCleared ==
  [][/\ (/\ <<selectedUser, selectedYear, selectedMonth>>'
             # <<selectedUser, selectedYear, selectedMonth>>
          /\ selectedUser' # NoUser) => Rebuilt
     /\ \A m \in MutationAnswers : Consumed(m) => Rebuilt]_vars

\* The selection was cleared while the grid shows entries.
C12_Witness == selectedUser = NoUser /\ ShownEvents # {}

\* The step sends a punch-in status request.
StatusQueried == CopiesIn(StatusReq, net') > CopiesIn(StatusReq, net)

\* The step moves the selection to another month, year or user.
Navigated ==
  \/ selectedYear' # selectedYear
  \/ selectedMonth' # selectedMonth
  \/ selectedUser' # selectedUser /\ selectedUser' # NoUser

IssuedFetches == {x \in IssuedRequests : x.kind = "getRange"}

\* The fetch was made for the user, year and month that are selected.
ForSelection(m) ==
  /\ m.args.user = selectedUser
  /\ m.args.year = selectedYear
  /\ m.args.month = selectedMonth

\* C14: when an entry fetch (here: one made for the current selection) fails,
\* every populated cell of the grid is left with an empty entry list and no
\* fetch is sent in its place.
C14_FailedFetchLeavesGridEmpty ==
  [][\A a \in Arrivals("getRange") :
       (~a.resp.ok /\ ForSelection(a.msg) /\ ApplyTimeEntries(a)) =>
         /\ ShownEvents' = {}
         /\ IssuedFetches = {}]_vars

\* What fetchTimeEntries does when the fetch fails: it leaves the grid as it
\* is and sends no fetch.
C14_FailedFetchLeavesGridAlone ==
  [][\A a \in Arrivals("getRange") :
       (~a.resp.ok /\ ApplyTimeEntries(a)) =>
         /\ calendarData' = calendarData
         /\ IssuedFetches = {}]_vars

\* The answers in flight of the given kind that report success.
Succeeded(kind) == {m \in MutationAnswers : m.kind = kind}

\* The successful answers to a punch-in (a create with punch_type 0).
PunchedInAnswers == {m \in Succeeded("create") : m.args.punch_type = 0}

\* The steps by which the view leaves PunchedIn: the answer of a successful
\* punch-out clears the flag; the answer of a successful deletion has the
\* status asked again, whose answer sets the flag.
LeavesPunchedIn ==
  /\ \A m \in Succeeded("punchOut") : Consumed(m) => ~hasPunchIn'
  /\ \A m \in Succeeded("delete") : Consumed(m) => StatusQueried

\* When the answer of a successful punch-in is received the view is PunchedIn
\* and the user has exactly one open work entry.
EntersPunchedIn ==
  \A m \in PunchedInAnswers :
    Consumed(m) => /\ hasPunchIn'
                   /\ Cardinality(OpenEntries(m.args.user_email)') = 1

\* The way back to NotPunchedIn alone.
C15_BackToNotPunchedIn == [][LeavesPunchedIn]_vars

\* C15: punch lifecycle.  A successful punch-out, or a successful deletion
\* of the open entry, brings the view back to NotPunchedIn, and a successful
\* punch-in brings it to PunchedIn with exactly one open work entry.
C15_PunchLifecycle == [][LeavesPunchedIn /\ EntersPunchedIn]_vars

\* The number of entry fetches in flight: sent and not yet received by
\* fetchTimeEntries.
FetchesInFlight ==
  BagCardinality([m \in {x \in BagToSet(net) : x.kind = "getRange"} |->
                    CopiesIn(m, net)])

\* C16: at any time at most one entry fetch is in flight.
C16_SingleFetchInFlight == FetchesInFlight <= 1

\* Two fetches are in flight, made for different months.
C16_TwoFetches ==
  \E m1, m2 \in BagToSet(net) :
    /\ m1.kind = "getRange" /\ m2.kind = "getRange"
    /\ m1.args.month # m2.args.month

\* The day has an entry of the given reporting type.
HasEntryOf(rt) == \E k \in 1..Len(pin.events) : pin.events[k].reporting_type = rt

ClassifiedNonRestDay ==
  /\ pin.fn = "classifyDay" /\ pout.done
  /\ WeekdayIndex(pin.weekday) \notin RestDays(pin.wc)

DailyTotalled == pin.fn = "calculateDailyTotal" /\ pout.done

NotUnpaidLeave(event) == event.reporting_type # "unpaidoff"

\* C18: an unpaid-leave entry adds nothing to the daily total, whatever its
\* times and total_time: the total of a day is the total of its other
\* entries.
C18_UnpaidLeaveContributesZero ==
  DailyTotalled =>
    pout.value = calculateDailyTotal(SelectSeq(pin.events, NotUnpaidLeave))

\* C18 fails: a day whose only entry is an unpaid leave with a total_time of
\* half an hour is totalled at half an hour.
C18_UnpaidLeaveCounted ==
  /\ DailyTotalled
  /\ Len(pin.events) = 1
  /\ pin.events[1].reporting_type = "unpaidoff"
  /\ pin.events[1].total_time = 1800
  /\ pout.value = 1800

\* What one entry of the service adds to its day: a work entry the seconds
\* between its punches, nothing while it is open; any other entry what the
\* view totals for it alone.
Contribution(entry) ==
  IF entry.reporting_type = "work"
    THEN IF entry.punch_out_timestamp = NoTime THEN 0
         ELSE (TimeKey(entry.punch_out_timestamp)
                 - TimeKey(entry.punch_in_timestamp)) * 3600
    ELSE calculateDailyTotal(<<EventOf(entry)>>)

RECURSIVE SumOfContributions(_)
SumOfContributions(entries) ==
  IF entries = <<>> THEN 0
  ELSE Contribution(Head(entries)) + SumOfContributions(Tail(entries))

DayOfEntriesShown == pin.fn = "dayOfEntries" /\ pout.done

NineToFive ==
  /\ Len(pin.entries) = 1
  /\ pin.entries[1].reporting_type = "work"
  /\ pin.entries[1].punch_in_timestamp.hour = 9
  /\ pin.entries[1].punch_out_timestamp.hour = 17
  /\ WeekdayIndex(pin.weekday) \notin RestDays(pin.wc)

RECURSIVE SumOfDailyTotals(_, _)
SumOfDailyTotals(grid, positions) ==
  IF positions = {} THEN 0
  ELSE LET p == CHOOSE q \in positions : TRUE
       IN  calculateDailyTotal(grid[p[1]][weekDays[p[2] + 1]].events)
             + SumOfDailyTotals(grid, positions \ {p})

\* The populated cells of the shown grid that hold entries.
CellsWithEntries ==
  {p \in Populated(calendarData) :
     calendarData[p[1]][weekDays[p[2] + 1]].events # <<>>}

\* C20: the month total shown is the sum of the daily totals of the populated
\* cells of the shown grid, blank cells adding nothing, formatted by
\* formatTimeFromSeconds.
C20_MonthTotalIsSumOfDays ==
  totalTimeWorkedThisMonth(calendarData) =
    formatTimeFromSeconds(SumOfDailyTotals(calendarData, Populated(calendarData)))

\* C20 happens: entries are shown on two days of the month, one of them in
\* the sixth row of the grid, and the month total is not zero.
C20_Witness ==
  /\ Cardinality(CellsWithEntries) = 2
  /\ \E p \in CellsWithEntries : p[1] = 6
  /\ SumOfDailyTotals(calendarData, Populated(calendarData)) > 0
  /\ totalTimeWorkedThisMonth(calendarData) # "00:00"

\* a / b rounded half-up, a >= 0 and b > 0: the integer n with
\* n - 1/2 <= a / b < n + 1/2.
HalfUp(a, b) ==
  CHOOSE n \in 0..(a \div b + 1) : (2 * n - 1) * b <= 2 * a /\ 2 * a < (2 * n + 1) * b

\* n in two digits at least.
TwoDigits(n) == IF n < 10 THEN "0" \o ToString(n) ELSE ToString(n)

\* "HH:MM" of s seconds, both components rounded half-up on their own.
HalfUpDuration(s) ==
  TwoDigits(HalfUp(s, 3600)) \o ":" \o TwoDigits(HalfUp(s % 3600, 60))

\* C21: for every number of seconds s >= 0 the formatted duration is "HH:MM"
\* with HH = s / 3600 rounded half-up and MM = (s mod 3600) / 60 rounded
\* half-up, each on its own and in two digits; the profile form's formatter
\* of hours does the same on the hours' seconds.
C21_RoundHalfUpComponents ==
  /\ (pin.fn = "formatTimeFromSeconds" /\ pout.done)
       => pout.value = HalfUpDuration(pin.seconds)
  /\ (pin.fn = "formatTimeFromHours" /\ pout.done)
       => pout.value = HalfUpDuration(HalfUp(pin.num * 3600, pin.den))

\* C21 happens: 3599 seconds are an hour in HH and sixty minutes in MM.
C21_Witness == Formatted(3599) /\ pout.value = "01:60"

RestDayAsked == pin.fn = "isWeekend" /\ pout.done

\* C22: a weekday is a rest day exactly when its name is, letter case aside,
\* one of the names of the user's weekend choice, and never when the weekend
\* choice is absent or empty; the Time Watch view and the report view answer
\* alike.
C22_RestDayPredicate ==
  RestDayAsked =>
    /\ pout.value.timeWatch = (WeekdayIndex(pin.dayName) \in RestDays(pin.wc))
    /\ pout.value.report = pout.value.timeWatch
    /\ pin.wc \in {NoChoice, EmptyString} => ~pout.value.timeWatch

\* C22 happens: "Sunday" is asked of a weekend choice written "SUNDAY".
C22_Witness ==
  /\ RestDayAsked
  /\ pin.dayName = "Sunday"
  /\ \E k \in 1..Len(pin.wc) : pin.wc[k] = "SUNDAY"
  /\ pout.value.timeWatch /\ pout.value.report

\* The columns of row w of the grid that hold a day.
PopulatedIn(grid, w) == {j \in 1..7 : grid[w][weekDays[j]].day # 0}

\* C23: the grid buildCalendar makes has at most 6 rows of 7 cells, each row
\* with a populated cell; the rows left out come after the last day of the
\* month: every row but the last is populated up to its last column and the
\* last row holds the last day.
C23_RowsOfTheGrid ==
  BuiltCalendar =>
    LET grid == pout.value
        N    == GregorianDaysInMonth(pin.year, pin.month)
    IN  /\ Len(grid) <= 6
        /\ \A w \in 1..Len(grid) :
              /\ DOMAIN grid[w] = {weekDays[j] : j \in 1..7}
              /\ PopulatedIn(grid, w) # {}
              /\ w < Len(grid) => 7 \in PopulatedIn(grid, w)
        /\ \E j \in 1..7 : grid[Len(grid)][weekDays[j]].day = N

\* C23 happens: February 2026 starts on a Sunday and has 28 days, so four
\* rows are made and the two rows after them are left out.
C23_Witness ==
  /\ BuiltCalendar
  /\ pin.year = 2026 /\ pin.month = 1
  /\ Len(pout.value) = 4
  /\ pout.value[4]["saturday"].day = 28

MonthViewed == pin.fn = "monthView" /\ pout.done

\* The day numbers of the populated cells of a grid, row by row.
DaysInReadingOrder(grid) ==
  LET cells == FlatCells(grid)
      holds(c) == c.day # 0
      shown == SelectSeq(cells, holds)
  IN  [k \in 1..Len(shown) |-> shown[k].day]

AprilOfWeekendUser ==
  /\ MonthViewed
  /\ pin.year = 2024 /\ pin.month = 3
  /\ pin.wc = <<"Saturday", "Sunday">>

\* C24: the populated cells of the built grid hold 1, 2, ..., N in reading
\* order and each day is in the column of its weekday.  April 2024 for a
\* user resting on Saturday and Sunday: the first row has a blank Sunday and
\* Monday to Saturday hold 1 to 6; the Saturdays and Sundays of the month,
\* Saturday 6 first, are marked weekend and no other day is.
C24_DaysInWeekdayColumns ==
  MonthViewed =>
    LET grid == pout.value.grid
        N    == GregorianDaysInMonth(pin.year, pin.month)
        first == GregorianFirstWeekday(pin.year, pin.month)
    IN  /\ DaysInReadingOrder(grid) = [k \in 1..N |-> k]
        /\ \A p \in Populated(grid) :
              p[2] = (first + grid[p[1]][weekDays[p[2] + 1]].day - 1) % 7
        /\ AprilOfWeekendUser =>
              /\ grid[1]["sunday"] = BlankCell
              /\ \A j \in 2..7 : grid[1][weekDays[j]].day = j - 1
              /\ \A p \in Populated(grid) :
                    pout.value.cells[p[1]][weekDays[p[2] + 1]].weekend
                      = (p[2] \in {0, 6})

\* C24 happens: April 2024 is shown to a user resting on Saturday and
\* Sunday; Saturday 6 and Sunday 28 are marked weekend.
C24_Witness ==
  /\ AprilOfWeekendUser
  /\ pout.value.grid[1]["saturday"].day = 6
  /\ pout.value.cells[1]["saturday"].weekend
  /\ pout.value.grid[5]["sunday"].day = 28
  /\ pout.value.cells[5]["sunday"].weekend

\* C25: when an entry fetch or a punch-in status query fails, the handler
\* that receives the failure shows a message to the user, leaves the grid as
\* it is and sends the failed request no second time.
C25_FetchFailureSurfaced ==
  [][/\ \A a \in Arrivals("getRange") :
          (~a.resp.ok /\ ApplyTimeEntries(a)) =>
            /\ message' # ""
            /\ calendarData' = calendarData
            /\ IssuedFetches = {}
     /\ \A a \in Arrivals("punchInStatus") :
          (~a.resp.ok /\ ApplyPunchInStatus(a)) =>
            /\ message' # ""
            /\ calendarData' = calendarData
            /\ ~StatusQueried]_vars

\* What the two handlers do with a failure: nothing that the user sees.  The
\* grid, the flag and the message stay as they are and nothing is sent again.
C25_FetchFailureSilent ==
  [][/\ \A a \in Arrivals("getRange") :
          (~a.resp.ok /\ ApplyTimeEntries(a)) =>
            /\ UNCHANGED <<message, calendarData, hasPunchIn>>
            /\ IssuedFetches = {}
     /\ \A a \in Arrivals("punchInStatus") :
          (~a.resp.ok /\ ApplyPunchInStatus(a)) =>
            /\ UNCHANGED <<message, calendarData, hasPunchIn>>
            /\ IssuedRequests = {}]_vars

\* C26: whenever nothing is in flight, no status query having failed, the
\* flag hasPunchIn says what the service holds: whether the logged-in user
\* has an open work entry; in whatever order the answers of overlapping
\* punch-in, punch-out, delete and status requests have arrived.
C26_FlagAgreesWhenQuiet ==
  net = EmptyBag => hasPunchIn = (OpenEntries(AuthUser) # {})

\* C26 fails: nothing is in flight after a punch-in that succeeded, the user
\* has an open work entry, and the flag says that there is none.
C26_StaleStatusWins ==
  /\ net = EmptyBag
  /\ message = "Punched in successfully"
  /\ OpenEntries(AuthUser) # {}
  /\ ~hasPunchIn

\* The leave entries of today that the service holds for the selected user.
LeaveOfToday ==
  {e \in store :
     /\ e.user_email = selectedUser
     /\ e.reporting_type \in {"paidoff", "unpaidoff"}
     /\ e.punch_in_timestamp.year = Today.year
     /\ e.punch_in_timestamp.month = Today.month
     /\ e.punch_in_timestamp.day = Today.day}

\* C27: a step that moves the calendar to another month or year leaves
\* hasCurrentDayOff as it is.
C27_NavigationKeepsDayOff ==
  [][(selectedMonth' # selectedMonth \/ selectedYear' # selectedYear)
       => hasCurrentDayOff' = hasCurrentDayOff]_vars

\* C27 fails: the user has a leave entry of today; with another month on
\* display and nothing in flight, today is not taken for a day off and Punch
\* In is offered.
C27_DayOffForgotten ==
  /\ net = EmptyBag
  /\ selectedUser = AuthUser
  /\ <<selectedYear, selectedMonth>> # <<Today.year, Today.month>>
  /\ LeaveOfToday # {}
  /\ ~hasCurrentDayOff
  /\ PunchInEnabled

CellRendered == pin.fn = "calendarCell" /\ pout.done

\* The rendered cell holds a paid or an unpaid leave.
CellHoldsLeave ==
  \E k \in 1..Len(pin.events) :
    pin.events[k].reporting_type \in {"paidoff", "unpaidoff"}

\* C28: a day whose weekday is a configured rest day, or whose cell holds a
\* paid or unpaid leave, is a day off (its cell offers no add button),
\* whatever the selected user's weekend choice is, absent and empty included.
C28_LeaveOrRestDayIsDayOff ==
  CellRendered =>
    ((WeekdayIndex(pin.dayName) \in RestDays(pin.wc) \/ CellHoldsLeave)
       => ~pout.value.addButton)

\* C28 fails: the user has no weekend choice, the cell holds a paid leave,
\* and the add button is offered.
C28_LeaveNotDayOff ==
  /\ CellRendered
  /\ pin.wc = NoChoice
  /\ Len(pin.events) = 1 /\ pin.events[1].reporting_type = "paidoff"
  /\ pout.value.addButton

\* Today is a day off for the logged-in user: a rest day of the user's
\* profile, or a day for which the service holds a leave entry of the user.
TodayIsDayOff ==
  \/ RestDayToday(AuthUser)
  \/ \E e \in store :
       /\ e.user_email = AuthUser
       /\ e.reporting_type \in {"paidoff", "unpaidoff"}
       /\ e.punch_in_timestamp.year = Today.year
       /\ e.punch_in_timestamp.month = Today.month
       /\ e.punch_in_timestamp.day = Today.day

\* C29: Punch In and Punch Out are never both enabled, and when today is a
\* day off for the logged-in user (with nothing in flight, so that the view
\* has been told) neither is enabled.
C29_PunchButtons ==
  /\ ~(PunchInEnabled /\ PunchOutEnabled)
  /\ (net = EmptyBag /\ TodayIsDayOff) => (~PunchInEnabled /\ ~PunchOutEnabled)

\* What the template gives: never both buttons, and none while
\* hasCurrentDayOff is true.
C29_ButtonsFollowComputed ==
  /\ ~(PunchInEnabled /\ PunchOutEnabled)
  /\ hasCurrentDayOff => (~PunchInEnabled /\ ~PunchOutEnabled)

\* C29 fails: the user is punched in, today has a leave entry of the user,
\* nothing is in flight and Punch Out is enabled.
C29_PunchOutOnDayOff ==
  /\ net = EmptyBag
  /\ TodayIsDayOff
  /\ hasPunchIn
  /\ PunchOutEnabled

EndTimeValidated == pin.fn = "validateEndTime" /\ pout.done

\* Minutes since midnight of a time typed in.
MinutesOf(t) == t[1] * 60 + t[2]

\* C30: with both times given, the end time is accepted exactly when it is
\* later than the start time, and refused with 'End time must be later than
\* Start Time' otherwise; with a time missing it is accepted.
C30_EndAfterStart ==
  EndTimeValidated =>
    IF pin.endTime = <<>> \/ pin.inTime = <<>>
      THEN pout.value.valid
      ELSE /\ pout.value.valid = (MinutesOf(pin.endTime) > MinutesOf(pin.inTime))
           /\ ~pout.value.valid
                => pout.value.error = "End time must be later than Start Time"

\* C30 fails: an end time equal to the start time is accepted.
C30_EqualTimesAccepted ==
  /\ EndTimeValidated
  /\ pin.endTime = <<9, 0>> /\ pin.inTime = <<9, 0>>
  /\ pout.value.valid

\* The requests the timestamp form sends in this step for an entry that is
\* no work entry.
IssuedLeaveSubmissions ==
  {x \in IssuedRequests :
     /\ x.kind \in {"create", "edit"}
     /\ x.args.punch_type = 1
     /\ x.args.reporting_type # "work"}

\* The day the form was opened on: for a new entry a populated cell of the
\* month on display, for an edit the punch-in day of the entry shown.
FormOpenedOn(x, t) ==
  IF x.kind = "create"
    THEN /\ t.year = selectedYear /\ t.month = selectedMonth
         /\ \E c \in ShownCells : c.day = t.day
    ELSE \E e \in ShownEvents :
           /\ e.id = x.args.id
           /\ <<e.inTime.year, e.inTime.month, e.inTime.day>>
                = <<t.year, t.month, t.day>>

\* C31: every request the timestamp form sends for an entry that is no work
\* entry, a new entry and an edit alike, carries a punch-in and a punch-out
\* that are both 00:00 of the day the form was opened on.
C31_LeaveSubmittedAtMidnight ==
  [][\A x \in IssuedLeaveSubmissions :
       /\ x.args.punch_in_timestamp = x.args.punch_out_timestamp
       /\ x.args.punch_in_timestamp.hour = 0
       /\ FormOpenedOn(x, x.args.punch_in_timestamp)]_vars

\* C31 happens: the edit of an entry that was punched in at some hour of the
\* day into a paid leave is in flight, both timestamps at 00:00 of that day.
C31_Witness ==
  \E x \in Requests, e \in store :
    /\ x.kind = "edit" /\ x.args.reporting_type = "paidoff"
    /\ e.uuid = x.args.id /\ e.punch_in_timestamp.hour # 0
    /\ x.args.punch_in_timestamp = [e.punch_in_timestamp EXCEPT !.hour = 0]
    /\ x.args.punch_out_timestamp = x.args.punch_in_timestamp

\* C32: the user form submitted untouched sends the weekend_choice string
\* the user has (the empty string for a user that has none); submitted with
\* a set of checkboxes ticked it sends a string for which isWeekend is true
\* of exactly the ticked days, of no day when none is ticked.
C32_WeekendChoiceRoundTrip ==
  /\ (pin.fn = "userFormUntouched" /\ pout.done) =>
       pout.value = (IF pin.user.present THEN pin.user.chars ELSE <<>>)
  /\ (pin.fn = "userFormTicked" /\ pout.done) =>
       pout.value.restDays =
         {k \in 1..7 : \E i \in 1..Len(pin.ticked) : pin.ticked[i] = UserFormWeekDays[k]}

\* C32 happens: Saturday is ticked before Friday; Friday and Saturday, and
\* no other day, are rest days.
C32_Witness ==
  /\ pin.fn = "userFormTicked" /\ pout.done
  /\ pin.ticked = <<"Saturday", "Friday">>
  /\ StringOf(pout.value.sent) = "Saturday,Friday"
  /\ pout.value.restDays = {6, 7}


(***************************************************************************)
(* The report view as a state machine.                                     *)
(***************************************************************************)
\* What a step of the report view leaves alone.
besideReport == <<sessionVars, pin, pout, loginVars>>

\* The user may still make a gesture.
ReportQuiet == reportGestures < MaxReportGestures

\* generateReport up to its await: the params and the endpoint of the request.
GenerateCall(seq) ==
  [seq |-> seq, stage |-> "report", kind |-> reportType,
   params |-> IF dateRangeType = "monthly" THEN MonthlyParams ELSE CustomParams]

\* startDate.value.toISOString() / endDate.value.toISOString() on null.
DatesMissing ==
  dateRangeType = "custom" /\ (startDate = NoDate \/ endDate = NoDate)

\* The catch block of generateReport, run with error e.  Without a response,
\* error.response.data throws in the first assignment and neither is made.
CatchBlock(e) ==
  IF e.response
  THEN /\ serverErrorMessage' = (IF e.text # "" THEN e.text ELSE Fallback)
       /\ reportData' = NoReport
       /\ producedBy' = NoRequest
  ELSE UNCHANGED <<serverErrorMessage, reportData, producedBy>>

\* The Generate Report button: generateReport up to its await.  With a date
\* missing in custom mode the try block throws a TypeError, which has no
\* response: the catch block throws in turn.
ClickGenerate ==
  /\ ReportQuiet
  /\ Cardinality(reportCalls) < MaxReportCalls
  /\ reportGestures' = reportGestures + 1
  /\ serverErrorMessage' = ""
  /\ reportCalls' = IF DatesMissing THEN reportCalls
                    ELSE reportCalls \cup {GenerateCall(reportGestures + 1)}
  /\ UNCHANGED <<reportType, dateRangeType, reportYear, reportMonth, startDate,
                 endDate, reportData, adminNames, producedBy>>
  /\ UNCHANGED besideReport

\* v-model of the report type select, and watch(reportType).
SelectReportType ==
  \E t \in ReportTypeOptions \ {reportType} :
    /\ ReportQuiet
    /\ reportGestures' = reportGestures + 1
    /\ reportType' = t
    /\ reportData' = NoReport
    /\ producedBy' = NoRequest
    /\ dateRangeType' = "monthly"
    /\ reportYear' = Today.year
    /\ reportMonth' = Today.month
    /\ startDate' = NewDate(Today.year, Today.month, 1)
    /\ endDate' = NewDate(Today.year, Today.month + 1, 0)
    /\ UNCHANGED <<serverErrorMessage, adminNames, reportCalls>>
    /\ UNCHANGED besideReport

\* v-model of the date range select.
SelectDateRangeType ==
  \E m \in DateRangeOptions \ {dateRangeType} :
    /\ ReportQuiet
    /\ reportGestures' = reportGestures + 1
    /\ dateRangeType' = m
    /\ UNCHANGED <<reportType, reportYear, reportMonth, startDate, endDate,
                   reportData, serverErrorMessage, adminNames, reportCalls,
                   producedBy>>
    /\ UNCHANGED besideReport

\* v-model of the year select (shown in monthly mode).
SelectReportYear ==
  \E y \in ReportYears \ {reportYear} :
    /\ ReportQuiet
    /\ dateRangeType = "monthly"
    /\ reportGestures' = reportGestures + 1
    /\ reportYear' = y
    /\ UNCHANGED <<reportType, dateRangeType, reportMonth, startDate, endDate,
                   reportData, serverErrorMessage, adminNames, reportCalls,
                   producedBy>>
    /\ UNCHANGED besideReport

\* v-model of the month select (shown in monthly mode).
SelectReportMonth ==
  \E m \in ReportMonths \ {reportMonth} :
    /\ ReportQuiet
    /\ dateRangeType = "monthly"
    /\ reportGestures' = reportGestures + 1
    /\ reportMonth' = m
    /\ UNCHANGED <<reportType, dateRangeType, reportYear, startDate, endDate,
                   reportData, serverErrorMessage, adminNames, reportCalls,
                   producedBy>>
    /\ UNCHANGED besideReport

\* v-model of the two date pickers (shown in custom mode).
PickStartDate ==
  \E d \in PickedDates \ {startDate} :
    /\ ReportQuiet
    /\ dateRangeType = "custom"
    /\ reportGestures' = reportGestures + 1
    /\ startDate' = d
    /\ UNCHANGED <<reportType, dateRangeType, reportYear, reportMonth, endDate,
                   reportData, serverErrorMessage, adminNames, reportCalls,
                   producedBy>>
    /\ UNCHANGED besideReport

PickEndDate ==
  \E d \in PickedDates \ {endDate} :
    /\ ReportQuiet
    /\ dateRangeType = "custom"
    /\ reportGestures' = reportGestures + 1
    /\ endDate' = d
    /\ UNCHANGED <<reportType, dateRangeType, reportYear, reportMonth, startDate,
                   reportData, serverErrorMessage, adminNames, reportCalls,
                   producedBy>>
    /\ UNCHANGED besideReport

\* generateReport after its first await, the request answered: reportData is
\* the answer, and for a company report (reportType as it is now) the admins
\* are asked for.
ReportAnswered(c) ==
  /\ c.stage = "report"
  /\ reportData' = ReportOf(c.kind)
  /\ producedBy' = c.params
  /\ reportCalls' = IF reportType = "company"
                    THEN (reportCalls \ {c}) \cup {[c EXCEPT !.stage = "admins"]}
                    ELSE reportCalls \ {c}
  /\ UNCHANGED <<reportType, dateRangeType, reportYear, reportMonth, startDate,
                 endDate, serverErrorMessage, adminNames, reportGestures>>
  /\ UNCHANGED besideReport

RecvReport == \E c \in reportCalls : ReportAnswered(c)

\* generateReport after its second await: the admins' names.
AdminsAnswered(c) ==
  /\ c.stage = "admins"
  /\ adminNames' = <<"Ada Admin">>
  /\ reportCalls' = reportCalls \ {c}
  /\ UNCHANGED <<reportType, dateRangeType, reportYear, reportMonth, startDate,
                 endDate, reportData, serverErrorMessage, producedBy,
                 reportGestures>>
  /\ UNCHANGED besideReport

RecvAdmins == \E c \in reportCalls : AdminsAnswered(c)

\* generateReport with one of its awaits rejected with e: the catch block.
GenerateReportFailed(c, e) ==
  /\ c \in reportCalls
  /\ reportCalls' = reportCalls \ {c}
  /\ CatchBlock(e)
  /\ UNCHANGED <<reportType, dateRangeType, reportYear, reportMonth, startDate,
                 endDate, adminNames, reportGestures>>
  /\ UNCHANGED besideReport

RecvReportFailure ==
  \E c \in reportCalls, e \in Failures : c.stage = "report" /\ GenerateReportFailed(c, e)

RecvAdminsFailure ==
  \E c \in reportCalls, e \in Failures : c.stage = "admins" /\ GenerateReportFailed(c, e)

\* The report view after setup and onMounted: generateReport() is at its
\* await with the refs' first values; the Time Watch view is not mounted.
ReportInit ==
  /\ reportType = "user"
  /\ dateRangeType = "monthly"
  /\ reportYear = Today.year
  /\ reportMonth = Today.month
  /\ startDate = NoDate
  /\ endDate = NoDate
  /\ reportData = NoReport
  /\ serverErrorMessage = ""
  /\ adminNames = <<>>
  /\ reportCalls = {GenerateCall(0)}
  /\ producedBy = NoRequest
  /\ reportGestures = 0
  /\ LoginUnmounted
  /\ pin = [fn |-> "none"]
  /\ pout = NotRun
  /\ store = {}
  /\ owner = <<>>
  /\ profile = [u \in Users |-> OtherChoice]
  /\ hasPunchIn = FALSE
  /\ message = ""
  /\ selectedUser = AuthUser
  /\ selectedUserData = NoChoice
  /\ userList = <<>>
  /\ selectedYear = Today.year
  /\ selectedMonth = Today.month
  /\ selectedCompany = AuthCompany
  /\ currentDate = [year |-> Today.year, month |-> Today.month]
  /\ calendarData = <<>>
  /\ net = EmptyBag
  /\ gestures = 0

ReportNext ==
  \/ ClickGenerate
  \/ SelectReportType
  \/ SelectDateRangeType
  \/ SelectReportYear
  \/ SelectReportMonth
  \/ PickStartDate
  \/ PickEndDate
  \/ RecvReport
  \/ RecvAdmins
  \/ RecvReportFailure
  \/ RecvAdminsFailure

ReportSpec == ReportInit /\ [][ReportNext]_vars

\* The text of the first through the last day of 1-based month m of year y.
MonthRangeText(y, m) ==
  ShortMonths[m] \o " 1, " \o ToString(y) \o " - " \o
  ShortMonths[m] \o " " \o ToString(GregorianDaysInMonth(y, m - 1)) \o ", " \o
  ToString(y)

\* C33: in monthly mode, the date range in the header of a displayed report is
\* the first through the last day of the year and month sent in the request
\* that produced the report.
C33_HeaderShowsRequestedMonth ==
  (reportData.present /\ dateRangeType = "monthly" /\ producedBy.mode = "monthly")
    => formattedDateRange = MonthRangeText(producedBy.year, producedBy.month)

\* The report of February is displayed under the header of April.
C33_StaleHeader ==
  /\ reportData.present
  /\ dateRangeType = "monthly"
  /\ producedBy.mode = "monthly"
  /\ producedBy.year = Today.year
  /\ producedBy.month = 2
  /\ formattedDateRange = "Apr 1, 2024 - Apr 30, 2024"

\* C34: whenever generateReport fails, reportData ends as null and
\* serverErrorMessage ends as the server's error text, or as 'Network error or
\* server unavailable' when the failure carries no such text or no response;
\* no earlier report stays on display.
C34_FailureClearsReport ==
  [][\A c \in reportCalls, e \in Failures :
       GenerateReportFailed(c, e) =>
         /\ reportData' = NoReport
         /\ serverErrorMessage' =
              (IF e.response /\ e.text # "" THEN e.text ELSE Fallback)]_vars

\* The request of onMounted has failed and the view shows neither a report
\* nor a message.
C34_FailedSilently ==
  /\ reportGestures = 0
  /\ reportCalls = {}
  /\ reportData = NoReport
  /\ serverErrorMessage = ""

(***************************************************************************)
(* The login page as a state machine: the form, handleLogin and the router.*)
(***************************************************************************)
\* What a step of the login page leaves alone.
besideLogin == <<sessionVars, pin, pout, reportVars>>

\* The user is on the login page and may still make a gesture.
LoginQuiet == route = "/login" /\ loginGestures < MaxLoginGestures

\* v-model of the three fields of the form.
TypeEmail ==
  \E v \in LoginEmails \ {form.email} :
    /\ LoginQuiet
    /\ loginGestures' = loginGestures + 1
    /\ form' = [form EXCEPT !.email = v]
    /\ UNCHANGED <<loginError, route, authUser, loginCalls>>
    /\ UNCHANGED besideLogin

TypePassword ==
  \E v \in LoginPasswords \ {form.password} :
    /\ LoginQuiet
    /\ loginGestures' = loginGestures + 1
    /\ form' = [form EXCEPT !.password = v]
    /\ UNCHANGED <<loginError, route, authUser, loginCalls>>
    /\ UNCHANGED besideLogin

ToggleRemember ==
  /\ LoginQuiet
  /\ loginGestures' = loginGestures + 1
  /\ form' = [form EXCEPT !.remember = ~form.remember]
  /\ UNCHANGED <<loginError, route, authUser, loginCalls>>
  /\ UNCHANGED besideLogin

\* @submit.prevent="handleLogin": handleLogin up to its first await.
SubmitLogin ==
  /\ LoginQuiet
  /\ Cardinality(loginCalls) < MaxLoginCalls
  /\ loginGestures' = loginGestures + 1
  /\ loginCalls' = loginCalls \cup
       {[seq |-> loginGestures + 1, stage |-> "login", email |-> form.email,
         password |-> form.password, remember |-> form.remember]}
  /\ UNCHANGED <<form, loginError, route, authUser>>
  /\ UNCHANGED besideLogin

\* handleLogin after its first await: the tokens are stored with the e-mail
\* the form holds now, and the user's details are asked for.
LoginAnswered(c) ==
  /\ c.stage = "login"
  /\ authUser' = [email |-> form.email, named |-> FALSE]
  /\ loginCalls' = (loginCalls \ {c}) \cup {[c EXCEPT !.stage = "user"]}
  /\ UNCHANGED <<form, loginError, route, loginGestures>>
  /\ UNCHANGED besideLogin

RecvLogin == \E c \in loginCalls : LoginAnswered(c)

\* handleLogin after its second await: the company's details are asked for.
UserDetailsAnswered(c) ==
  /\ c.stage = "user"
  /\ loginCalls' = (loginCalls \ {c}) \cup {[c EXCEPT !.stage = "company"]}
  /\ UNCHANGED <<form, loginError, route, authUser, loginGestures>>
  /\ UNCHANGED besideLogin

RecvUserDetails == \E c \in loginCalls : UserDetailsAnswered(c)

\* handleLogin after its third await: the user is stored with the names, and
\* router.push('/timewatch').
CompanyDetailsAnswered(c) ==
  /\ c.stage = "company"
  /\ authUser' = [email |-> form.email, named |-> TRUE]
  /\ route' = "/timewatch"
  /\ loginCalls' = loginCalls \ {c}
  /\ UNCHANGED <<form, loginError, loginGestures>>
  /\ UNCHANGED besideLogin

RecvCompanyDetails == \E c \in loginCalls : CompanyDetailsAnswered(c)

\* The catch block of handleLogin, run with error e.  With a response that
\* has a body, the third operand of the condition names esrror, which is
\* declared nowhere: a ReferenceError leaves the block before any assignment.
HandleLoginFailed(c, e) ==
  /\ c \in loginCalls
  /\ loginCalls' = loginCalls \ {c}
  /\ IF e.response /\ e.body
     THEN UNCHANGED <<loginError, form>>
     ELSE /\ loginError' = "Login failed. Please check your credentials."
          /\ form' = [form EXCEPT !.email = "", !.password = ""]
  /\ UNCHANGED <<route, authUser, loginGestures>>
  /\ UNCHANGED besideLogin

RecvLoginFailure ==
  \E c \in loginCalls, e \in LoginFailures : HandleLoginFailed(c, e)

\* The login page after setup; no other view is mounted.
LoginInit ==
  /\ form = [email |-> "", password |-> "", remember |-> FALSE]
  /\ loginError = ""
  /\ route = "/login"
  /\ authUser = NoAuthUser
  /\ loginCalls = {}
  /\ loginGestures = 0
  /\ ReportUnmounted
  /\ pin = [fn |-> "none"]
  /\ pout = NotRun
  /\ store = {}
  /\ owner = <<>>
  /\ profile = [u \in Users |-> OtherChoice]
  /\ hasPunchIn = FALSE
  /\ message = ""
  /\ selectedUser = AuthUser
  /\ selectedUserData = NoChoice
  /\ userList = <<>>
  /\ selectedYear = Today.year
  /\ selectedMonth = Today.month
  /\ selectedCompany = AuthCompany
  /\ currentDate = [year |-> Today.year, month |-> Today.month]
  /\ calendarData = <<>>
  /\ net = EmptyBag
  /\ gestures = 0

LoginNext ==
  \/ TypeEmail
  \/ TypePassword
  \/ ToggleRemember
  \/ SubmitLogin
  \/ RecvLogin
  \/ RecvUserDetails
  \/ RecvCompanyDetails
  \/ RecvLoginFailure

LoginSpec == LoginInit /\ [][LoginNext]_vars

\* C35: whenever a login attempt fails, with or without a server error body,
\* loginError is set to a message, the form's email and password are cleared,
\* and the router does not navigate.
C35_FailedLoginReported ==
  [][\A c \in loginCalls, e \in LoginFailures :
       HandleLoginFailed(c, e) =>
         /\ loginError' # ""
         /\ form'.email = ""
         /\ form'.password = ""
         /\ route' = route]_vars

\* The router never leaves the login page in a step in which a login fails.
C35_NoNavigationOnFailure ==
  [][\A c \in loginCalls, e \in LoginFailures :
       HandleLoginFailed(c, e) => route' = route]_vars

\* Every attempt has failed, the last one after the tokens were stored: the
\* form still holds the e-mail and no message is shown.
C35_FailureUnreported ==
  /\ loginCalls = {}
  /\ route = "/login"
  /\ authUser = [email |-> "u1", named |-> FALSE]
  /\ form.email = "u1"
  /\ loginError = ""

\* The minutes that the users drawn have worked, from the numbers drawn.
RECURSIVE MinutesWorked(_)
MinutesWorked(users) ==
  IF users = <<>> THEN 0
  ELSE 60 * Head(users).h + Head(users).m + MinutesWorked(Tail(users))

TotalShown == pin.fn = "totalHoursWorked" /\ pout.done

\* C36: the total hours worked of a company report is the sum over the users
\* of hours * 3600 + minutes * 60 read from their "HH:MM" strings, shown as
\* "HH:MM" with a minute field in 00..59; for a single user with minutes
\* below 60 it is that user's string.
C36_TotalHoursWorked ==
  TotalShown =>
    /\ \E h \in 0..(MaxReportUsers * 161), m \in 0..59 :
         /\ 60 * h + m = MinutesWorked(pin.users)
         /\ pout.value.shown = TwoDigits(h) \o ":" \o TwoDigits(m)
    /\ (Len(pin.users) = 1 /\ pin.users[1].m < 60)
         => pout.value.shown = StringOf(pout.value.users[1])

\* 07:30 and 00:45 make 08:15.
C36_Witness ==
  /\ TotalShown
  /\ pin.users = <<[h |-> 7, m |-> 30], [h |-> 0, m |-> 45]>>
  /\ pout.value.users = <<ServiceTime(7, 30), ServiceTime(0, 45)>>
  /\ pout.value.shown = "08:15"
=============================================================================
